---- MODULE Spec2Model ----
(***************************************************************************)
(* Model of the port scanner's scanning core and of the scan session       *)
(* registry around it:                                                     *)
(*   scanner_tool/threading_module.py   ThreadingModule.execute_tasks/stop *)
(*   scanner_tool/scanner_engine.py     ScannerEngine.scan_ports,          *)
(*                                      scan_port_worker, test_port,       *)
(*                                      fetch_service_info                 *)
(*   scanner_tool/flask_web_interface.py api_start_scan, scan_worker,      *)
(*                                      update_progress, add_log,          *)
(*                                      complete_scan, api_stop_scan       *)
(*   scanner_tool/main.py               PortScanner.run_scan               *)
(*                                                                         *)
(* One scan is followed from its entry point (the command line's run_scan  *)
(* or the web layer's api_start_scan) to the end of the scanning thread.   *)
(* The scanning thread, the pool's worker threads, the handler of the stop *)
(* request and a caller of ThreadingModule.stop() interleave statement by  *)
(* statement where they touch shared state.                                *)
(***************************************************************************)
EXTENDS Integers, Sequences, FiniteSets, TLC

\* ------------------------------------------------------------------ bounds
MaxPorts == 2           \* longest port list scanned
MaxThreads == 3         \* largest requested thread count
MaxCpu == 1             \* largest CPU count of the host
MaxHangs == 1           \* port invocations that never finish per run
MaxStopRequests == 2    \* POST /api/scan/<id>/stop requests per scan
MaxSizingThreads == 102 \* largest requested thread count of a pool sizing
MaxSizingPorts == 102   \* longest port list of a pool sizing
MaxSizingCpu == 52      \* largest CPU count of a pool sizing
MaxSections == 2        \* comma-separated sections of a port spec
MaxSmallPort == 2       \* the low port numbers of a port spec: 0..MaxSmallPort
MaxShuffleLen == 3      \* longest list whose every shuffle is followed
MaxRequests == 2        \* start requests a client repeats

\* ------------------------------------------------------- program constants
ThreadCapFactor == 2        \* scanner_engine.py:906, flask_web_interface.py:2621
PoolCapFactor == 5          \* threading_module.py:27
PoolCapCeiling == 100       \* threading_module.py:27
MaxPortNumber == 65535      \* scanner_engine.py:1012, main.py:320

\* The ports a scan may be asked for, in the ascending order parse_port_range
\* returns them: 80 is in SERVICE_MAP, 10000 only in the system's service
\* database, the others in neither.
PortPool == <<80, 9999, 10000, 50000, 50001>>

Min(a, b) == IF a <= b THEN a ELSE b

Range(s) == {s[i] : i \in DOMAIN s}

\* The permutations of a sequence: the outcomes of random.shuffle.
Perms(s) ==
    {q \in [DOMAIN s -> Range(s)] : \A i, j \in DOMAIN s : i # j => q[i] # q[j]}

EmptyMap == [p \in {} |-> 0]

\* ---------------------------------------------------------- service lookup
SERVICE_MAP ==
    [p \in {21, 22, 23, 25, 53, 80, 110, 123, 137, 138, 139, 143, 389, 443,
            445, 993, 995, 1723, 3306, 3389, 5900, 8080} |->
        CASE p = 21 -> "FTP" [] p = 22 -> "SSH" [] p = 23 -> "Telnet"
          [] p = 25 -> "SMTP" [] p = 53 -> "DNS" [] p = 80 -> "HTTP"
          [] p = 110 -> "POP3" [] p = 123 -> "NTP"
          [] p \in {137, 138, 139} -> "NetBIOS"
          [] p = 143 -> "IMAP" [] p = 389 -> "LDAP" [] p = 443 -> "HTTPS"
          [] p = 445 -> "SMB" [] p = 993 -> "IMAPS" [] p = 995 -> "POP3S"
          [] p = 1723 -> "PPTP" [] p = 3306 -> "MySQL" [] p = 3389 -> "RDP"
          [] p = 5900 -> "VNC" [] p = 8080 -> "HTTP-Proxy"]

\* socket.getservbyport on the scanning host: the name in the host's service
\* database, or "" where the call raises OSError (no entry).
getservbyport(port) ==
    CASE port = 10000 -> "webmin"
      [] port = 22 -> "ssh"
      [] port = 80 -> "http"
      [] OTHER -> ""

\* A classifier that asks the system's database first (a fault variant, used
\* to test the classifier property)
fetch_service_info_SystemFirst(port) ==
    IF getservbyport(port) # "" THEN getservbyport(port)
    ELSE IF port \in DOMAIN SERVICE_MAP THEN SERVICE_MAP[port]
    ELSE "Unknown"

fetch_service_info(port) ==
    IF port \in DOMAIN SERVICE_MAP THEN SERVICE_MAP[port]
    ELSE IF getservbyport(port) # "" THEN getservbyport(port)
    ELSE "Unknown"

\* grab_banner's initial banner_info, the value it returns when every
\* inspection branch fails or yields nothing.
EmptyBannerInfo == [banner |-> "", version |-> "", server |-> "", ssl_cert |-> EmptyMap]

\* int((completed_ports / total_ports) * 100); for the totals of this model
\* the float product truncates to the integer quotient.
ProgressPercent(completed, total) == (completed * 100) \div total

\* ------------------------------------------------------------------- state
VARIABLES
    \* the request
    entry,            \* "cli": PortScanner.run_scan, "web": api_start_scan
    target_ok,        \* whether socket.gethostbyname(target) succeeds
    req_threads,      \* the thread count the caller asked for
    cpu_count,        \* multiprocessing.cpu_count()
    \* the scanning thread
    pc,               \* its position
    ports,            \* the port list object (shuffled in place)
    thread_count,     \* the thread_count argument / local of scan_ports
    effective_thread_count,
    open_ports,       \* what scan_ports returned
    \* ThreadingModule and the executor of execute_tasks
    stop_event,
    max_workers,      \* ThreadPoolExecutor(max_workers=optimal_thread_count)
    futures,          \* number of futures submitted, in task order
    collect_idx,      \* the future the collection loop is at
    results,          \* execute_tasks' results list
    task,             \* per task: the position of its scan_port_worker call
    is_open,          \* per task: test_port's answer
    service,          \* per task: the service local of scan_port_worker
    read_completed,   \* per task: the value of completed_ports it loaded
    calc_progress,    \* per task: the progress local of update_progress
    \* the progress callback's closure
    total_ports,
    completed_ports,
    \* the scan's entry in active_scans, and in scan_results
    registered,       \* scan_id in active_scans
    as_status,
    as_progress,
    as_logs,
    as_results,
    as_end_time,      \* 0: no 'end_time' key
    scan_results,     \* [present, value]: scan_results[scan_id]
    now,              \* datetime.now(), as a counter
    cs_status,        \* the status argument of the scanning thread's complete_scan
    \* the stop request's handler thread
    hpc,
    stop_requests,
    \* history (observation only)
    invoked,          \* per port: scan_port_worker invocations
    cb_calls,         \* per port argument (0: the advisory): callback calls
    tm_stop_called,   \* stop() was called after this run's stop_event.clear()
    begun_at_stop,    \* the tasks that had begun executing at that stop()
    done_at_stop,     \* the futures done at that stop()
    hangs,            \* invocations that hang so far
    timed_out,        \* the tasks whose future.result timed out
    api_stopped_at,   \* [seen, open]: at the stop request, the open ports among
                      \* the invocations completed by then
    stop_saw          \* the status the latest stop request found ("none":
                      \* no stop request has reached the scan)

\* A start request's port spec and its parsing
VARIABLES
    port_range,       \* the port spec: its comma-separated sections, each
                      \* the fields its split('-') gives; a field is a
                      \* numeral int() accepts or text it rejects
    parse_pc,         \* "request", "parsed", "rejected", "scanned"
    parse_result,     \* [by, ok, ports]: the parser run, whether it returned a
                      \* list, and the list's content when it returned
    DEFAULT_PORTS,    \* the module-level list DEFAULT_PORTS (a mutable object)
    default_aliased,  \* the list handed to the scan is the DEFAULT_PORTS object
    parse_requests    \* requests made so far

parseVars ==
    <<port_range, parse_pc, parse_result, DEFAULT_PORTS, default_aliased,
      parse_requests>>

\* One port's invocation of scan_port_worker followed through the probe and
\* the inspection operations
VARIABLES
    probe_port,       \* the port
    probe_pc,         \* the position in scan_port_worker
    conn,             \* how test_port's connect attempt ended ("none": not made)
    connects,         \* connect attempts test_port has made
    pw_is_open,       \* scan_port_worker's is_open
    pw_service,       \* scan_port_worker's service
    pw_banner_info,   \* scan_port_worker's banner_info
    cb_service,       \* the service the web callback looked up for its log entry
    lookups,          \* calls of socket.getservbyport so far
    branch,           \* per inspection branch ("ssl", "http", "banner"): how it
                      \* ended ("skipped" where it is not run); "chain": the
                      \* arm of the elif chain that ran ("none": no arm)
    unclosed,         \* sockets an operation returned without closing, which
                      \* stay open until the interpreter finalises them
    raised,           \* an exception left test_port, fetch_service_info or
                      \* grab_banner
    port_record       \* the mapping step 9.9 builds from the invocation's tuple

probeVars ==
    <<probe_port, probe_pc, conn, connects, pw_is_open, pw_service,
      pw_banner_info, cb_service, lookups, branch, unclosed, raised,
      port_record>>

\* A client polling the status query of a scan
VARIABLES
    poll_pc,          \* the position in api_scan_status
    logs_index,       \* api_scan_status' logs_index (the request's argument)
    new_logs,         \* api_scan_status' new_logs
    client_index,     \* the logs_index of the last response (0 before the first)
    client_logs       \* the log entries the client has received, in order

pollVars == <<poll_pc, logs_index, new_logs, client_index, client_logs>>

\* ---- state of the further specifications
\* The receive loop of grab_http_banner
VARIABLES
    recv_pc,          \* the position in the loop
    response          \* len(response): the bytes accumulated

recvVars == <<recv_pc, response>>

\* Two scans and the one ScannerEngine's timeout
VARIABLES
    engine_timeout,   \* scanner_engine.timeout, the attribute of the module-level object
    sc_timeout,       \* per scan: the timeout of its start request (0: none yet)
    sc_pc,            \* per scan: the position of its scan_worker thread
    sc_probes,        \* per scan: the test_port calls made so far
    sc_used           \* per scan: the timeouts its test_port calls have set on their sockets

timeoutVars == <<engine_timeout, sc_timeout, sc_pc, sc_probes, sc_used>>

\* The answers to requests that name a scan
VARIABLES
    not_found         \* the "Scan not found" answers given for a scan_id api_start_scan has returned

foundVars == <<not_found>>

\* Two start requests and the scan_ids they are given
VARIABLES
    clock,            \* int(time.time()): the current second
    id_pc,            \* per scan: the position of its request and of its scan_worker
    sc_id,            \* per scan: the scan_id api_start_scan built, <<second, target>> (<<>>: none yet)
    sessions          \* active_scans: per scan_id the scan that made the entry and, per log entry, the scan that wrote it

idVars == <<clock, id_pc, sc_id, sessions>>

\* Two scans started with an empty port spec, holding the one DEFAULT_PORTS list
VARIABLES
    shared_list,      \* the DEFAULT_PORTS object both scan_ports calls received as ports
    sh_pc,            \* per scan: the position of its scan_ports call
    sh_i,             \* per scan: the index i of random.shuffle's loop, then of the for loop over ports
    sh_swap,          \* per scan: the j drawn and the values x[j], x[i] loaded for the swap
    sh_tasks          \* per scan: the ports of the tasks built so far

sharedVars == <<shared_list, sh_pc, sh_i, sh_swap, sh_tasks>>

\* Two calls of execute_tasks on the one ThreadingModule, and stop()
VARIABLES
    tm_flag,          \* threading_module.stop_event of the module-level object
    ex_pc,            \* per call: the position of execute_tasks
    ex_idx,           \* per call: the tasks its current loop has gone through
    cancelled,        \* per call: stop() was called while the call was running
    after_stop        \* per call: the loop rounds that went on after that stop()

cancelVars == <<tm_flag, ex_pc, ex_idx, cancelled, after_stop>>

extraVars == <<recvVars, timeoutVars, foundVars, idVars, sharedVars, cancelVars>>

\* The state outside a scan's own: single calls of the parsers, of the probe
\* and inspection operations, and of the status query
callVars == <<parseVars, probeVars, pollVars, extraVars>>

vars ==
    <<callVars, entry, target_ok, req_threads, cpu_count, pc, ports, thread_count,
      effective_thread_count, open_ports, stop_event, max_workers, futures,
      collect_idx, results, task, is_open, service, read_completed,
      calc_progress, total_ports, completed_ports, registered, as_status,
      as_progress, as_logs, as_results, as_end_time, scan_results, now,
      cs_status, hpc, stop_requests, invoked, cb_calls, tm_stop_called,
      begun_at_stop, done_at_stop, hangs, timed_out, api_stopped_at,
      stop_saw>>

requestVars == <<entry, target_ok, req_threads, cpu_count>>
poolVars ==
    <<stop_event, max_workers, futures, collect_idx, results, task, is_open,
      service, read_completed, calc_progress>>
sessionVars ==
    <<registered, as_status, as_progress, as_logs, as_results, as_end_time,
      scan_results, now>>
handlerVars == <<hpc, stop_requests, api_stopped_at, stop_saw>>
stopHistVars == <<tm_stop_called, begun_at_stop, done_at_stop>>
histVars == <<invoked, cb_calls, hangs, timed_out>>

Tasks == 1..Len(ports)

\* cpu_count * 2 of scan_ports and of api_start_scan
max_recommended_threads == cpu_count * ThreadCapFactor

\* ThreadingModule.__init__: min(100, cpu_count * 5)
MAX_THREAD_COUNT == Min(PoolCapCeiling, cpu_count * PoolCapFactor)

InitEntry(e) ==
    /\ entry = e
    /\ target_ok \in BOOLEAN
    /\ req_threads \in 1..MaxThreads
    /\ cpu_count \in 1..MaxCpu
    /\ \E n \in 1..MaxPorts : ports = SubSeq(PortPool, 1, n)
    /\ pc = IF entry = "web" THEN "api_start_scan" ELSE "run_scan"
    /\ thread_count = req_threads
    /\ effective_thread_count = 0
    /\ open_ports = EmptyMap
    /\ stop_event = FALSE
    /\ max_workers = 0
    /\ futures = 0
    /\ collect_idx = 1
    /\ results = <<>>
    /\ task = [i \in Tasks |-> "new"]
    /\ is_open = [i \in Tasks |-> FALSE]
    /\ service = [i \in Tasks |-> ""]
    /\ read_completed = [i \in Tasks |-> 0]
    /\ calc_progress = [i \in Tasks |-> 0]
    /\ total_ports = 0
    /\ completed_ports = 0
    /\ registered = FALSE
    /\ as_status = "none"
    /\ as_progress = 0
    /\ as_logs = <<>>
    /\ as_results = EmptyMap
    /\ as_end_time = 0
    /\ scan_results = [present |-> FALSE, value |-> EmptyMap]
    /\ now = 1
    /\ cs_status = "none"
    /\ hpc = "idle"
    /\ stop_requests = 0
    /\ invoked = [p \in Range(ports) |-> 0]
    /\ cb_calls = [p \in Range(ports) \cup {0} |-> 0]
    /\ tm_stop_called = FALSE
    /\ begun_at_stop = {}
    /\ done_at_stop = {}
    /\ hangs = 0
    /\ timed_out = {}
    /\ api_stopped_at = [seen |-> FALSE, open |-> {}]
    /\ stop_saw = "none"

\* The scans that run at the same time in the web layer's process
Scans == {1, 2}

\* ScannerEngine.__init__: self.timeout = 1.0
DefaultTimeout == 1

\* DEFAULT_PORTS as written in flask_web_interface.py and main.py
DefaultPortList ==
    <<21, 22, 23, 25, 53, 80, 110, 123, 135, 139, 143, 389, 443, 445, 993,
      995, 1723, 3306, 3389, 5900, 8080>>

\* The length of the default list followed where two scans share it
MaxSharedLen == 3

\* The head of DEFAULT_PORTS, as long as that
SharedDefault == SubSeq(DefaultPortList, 1, MaxSharedLen)

\* No port spec is being parsed
ParseIdle ==
    /\ port_range = <<>>
    /\ parse_pc = "idle"
    /\ parse_result = [by |-> "none", ok |-> FALSE, ports |-> <<>>]
    /\ DEFAULT_PORTS = DefaultPortList
    /\ default_aliased = FALSE
    /\ parse_requests = 0

\* grab_banner's initial banner_info, with no ssl_cert record
NoBannerInfo == [banner |-> "", version |-> "", server |-> "", ssl_cert |-> EmptyMap]

\* No inspection branch has run
NoBranch ==
    [b \in {"ssl", "http", "banner", "chain"} |->
        IF b = "chain" THEN "none" ELSE "skipped"]

\* No port is being probed
ProbeIdle ==
    /\ probe_port = 0
    /\ probe_pc = "idle"
    /\ conn = "none"
    /\ connects = 0
    /\ pw_is_open = FALSE
    /\ pw_service = ""
    /\ pw_banner_info = EmptyMap
    /\ cb_service = ""
    /\ lookups = 0
    /\ branch = NoBranch
    /\ unclosed = 0
    /\ raised = FALSE
    /\ port_record = EmptyMap

\* No client is polling
PollIdle ==
    /\ poll_pc = "idle"
    /\ logs_index = 0
    /\ new_logs = <<>>
    /\ client_index = 0
    /\ client_logs = <<>>

\* Idle: the receive loop of grab_http_banner
RecvIdle ==
    /\ recv_pc = "idle"
    /\ response = 0

\* Idle: two scans and the one ScannerEngine's timeout
TimeoutIdle ==
    /\ engine_timeout = DefaultTimeout
    /\ sc_timeout = [s \in Scans |-> 0]
    /\ sc_pc = [s \in Scans |-> "idle"]
    /\ sc_probes = [s \in Scans |-> 0]
    /\ sc_used = [s \in Scans |-> {}]

\* Idle: the answers to requests that name a scan
FoundIdle ==
    /\ not_found = 0

\* Idle: two start requests and the scan_ids they are given
IdIdle ==
    /\ clock = 0
    /\ id_pc = [s \in Scans |-> "idle"]
    /\ sc_id = [s \in Scans |-> <<>>]
    /\ sessions = EmptyMap

\* Idle: two scans started with an empty port spec, holding the one DEFAULT_PORTS list
SharedIdle ==
    /\ shared_list = SharedDefault
    /\ sh_pc = [s \in Scans |-> "idle"]
    /\ sh_i = [s \in Scans |-> 0]
    /\ sh_swap = [s \in Scans |-> <<>>]
    /\ sh_tasks = [s \in Scans |-> <<>>]

\* Idle: two calls of execute_tasks on the one ThreadingModule, and stop()
CancelIdle ==
    /\ tm_flag = FALSE
    /\ ex_pc = [c \in Scans |-> "idle"]
    /\ ex_idx = [c \in Scans |-> 0]
    /\ cancelled = [c \in Scans |-> FALSE]
    /\ after_stop = [c \in Scans |-> 0]

ExtraIdle ==
    /\ RecvIdle
    /\ TimeoutIdle
    /\ FoundIdle
    /\ IdIdle
    /\ SharedIdle
    /\ CancelIdle

CallsIdle == ParseIdle /\ ProbeIdle /\ PollIdle /\ ExtraIdle

\* ------------------------------------------------- the web layer's helpers
\* add_log: appends only when the scan is in active_scans
add_log(logs, level, message, port) ==
    IF registered THEN Append(logs, <<level, message, port>>) ELSE logs

\* ------------------------------------------------------------ entry points
\* PortScanner.run_scan up to the call of scan_ports: an unresolvable host
\* is reported and nothing is scanned.
RunScan ==
    /\ pc = "run_scan"
    /\ IF target_ok
         THEN /\ pc' = "scan_ports"
              /\ total_ports' = Len(ports)
         ELSE /\ pc' = "done"
              /\ UNCHANGED total_ports
    /\ UNCHANGED <<callVars, requestVars, ports, thread_count, effective_thread_count,
                   open_ports, poolVars, completed_ports, sessionVars,
                   cs_status, handlerVars, stopHistVars, histVars>>

\* api_start_scan: caps the thread count, logs the thread warning (add_log
\* runs before the scan is registered) and starts the scan_worker thread.
ApiStartScan ==
    /\ pc = "api_start_scan"
    /\ thread_count' =
          IF thread_count > max_recommended_threads
            THEN max_recommended_threads ELSE thread_count
    /\ as_logs' =
          IF thread_count > max_recommended_threads
            THEN add_log(as_logs, "warning", "thread count exceeds maximum", 0)
            ELSE as_logs
    /\ pc' = "scan_worker"
    /\ UNCHANGED <<callVars, requestVars, ports, effective_thread_count, open_ports,
                   poolVars, total_ports, completed_ports, registered,
                   as_status, as_progress, as_results, as_end_time,
                   scan_results, now, cs_status, handlerVars, stopHistVars,
                   histVars>>

\* scan_worker, step 11.1: active_scans[scan_id] = {...}
ScanWorkerRegister ==
    /\ pc = "scan_worker"
    /\ registered' = TRUE
    /\ as_status' = "running"
    /\ as_progress' = 0
    /\ as_logs' = <<>>
    /\ as_results' = EmptyMap
    /\ as_end_time' = 0
    /\ pc' = "resolve"
    /\ UNCHANGED <<callVars, requestVars, ports, thread_count, effective_thread_count,
                   open_ports, poolVars, total_ports, completed_ports,
                   scan_results, now, cs_status, handlerVars, stopHistVars,
                   histVars>>

\* A scan_worker that goes on to scan after a failed resolution (a fault
\* variant of step 11.2, used to test the resolution-failure property)
ScanWorkerResolve_NoReturn ==
    /\ pc = "resolve"
    /\ as_logs' =
          IF target_ok THEN add_log(as_logs, "info", "Resolved", 0)
          ELSE add_log(as_logs, "error", "Failed to resolve", 0)
    /\ pc' = "configure"
    /\ UNCHANGED <<callVars, requestVars, ports, thread_count, effective_thread_count,
                   open_ports, poolVars, total_ports, completed_ports,
                   registered, as_status, as_progress, as_results,
                   as_end_time, scan_results, now, cs_status, handlerVars,
                   stopHistVars, histVars>>

\* scan_worker, step 11.2: resolve the target; on failure log and go to
\* complete_scan(scan_id, 'failed')
ScanWorkerResolve ==
    /\ pc = "resolve"
    /\ IF target_ok
         THEN /\ as_logs' = add_log(as_logs, "info", "Resolved", 0)
              /\ pc' = "configure"
              /\ UNCHANGED cs_status
         ELSE /\ as_logs' = add_log(as_logs, "error", "Failed to resolve", 0)
              /\ cs_status' = "failed"
              /\ pc' = "complete_scan"
    /\ UNCHANGED <<callVars, requestVars, ports, thread_count, effective_thread_count,
                   open_ports, poolVars, total_ports, completed_ports,
                   registered, as_status, as_progress, as_results,
                   as_end_time, scan_results, now, handlerVars, stopHistVars,
                   histVars>>

\* scan_worker, steps 11.3 and 11.4: total_ports = len(ports),
\* completed_ports = 0
ScanWorkerConfigure ==
    /\ pc = "configure"
    /\ total_ports' = Len(ports)
    /\ completed_ports' = 0
    /\ pc' = "scan_ports"
    /\ UNCHANGED <<callVars, requestVars, ports, thread_count, effective_thread_count,
                   open_ports, poolVars, sessionVars, cs_status, handlerVars,
                   stopHistVars, histVars>>

\* ------------------------------------------------------------- scan_ports
\* scan_ports without its step 9.4 (a fault variant, used to test the pool
\* size)
CapThreadCount_NoCap(count) == count

\* if thread_count > max_recommended_threads:
\*     thread_count = max_recommended_threads
CapThreadCount(count) ==
    IF count > max_recommended_threads THEN max_recommended_threads ELSE count

\* scan_ports, steps 9.2 to 9.4: cap the thread count at twice the CPU count
\* and, when it was capped, call progress_callback(0, "WARNING: ...") once.
\* The web layer's callback (update_progress) counts that call as a finished
\* port and, its status argument being a non-empty string, logs port 0 as
\* open; the command line's callback advances the progress bar.
ScanPortsCap ==
    /\ pc = "scan_ports"
    /\ thread_count' = CapThreadCount(thread_count)
    /\ IF thread_count > max_recommended_threads
         THEN /\ cb_calls' = [cb_calls EXCEPT ![0] = @ + 1]
              /\ completed_ports' = completed_ports + 1
              /\ IF entry = "web"
                   THEN /\ as_progress' =
                             ProgressPercent(completed_ports + 1, total_ports)
                        /\ as_logs' = add_log(as_logs, "success",
                                              fetch_service_info(0), 0)
                   ELSE UNCHANGED <<as_progress, as_logs>>
         ELSE UNCHANGED <<cb_calls, completed_ports, as_progress, as_logs>>
    /\ pc' = "shuffle"
    /\ UNCHANGED <<callVars, requestVars, ports, effective_thread_count, open_ports,
                   poolVars, total_ports, registered, as_status, as_results,
                   as_end_time, scan_results, now, cs_status, handlerVars,
                   stopHistVars, invoked, hangs, timed_out>>

\* scan_ports, steps 9.5 to 9.7: effective_thread_count, random.shuffle(ports)
\* in place, one task per port in the shuffled order
ScanPortsShuffle ==
    /\ pc = "shuffle"
    /\ effective_thread_count' = Min(thread_count, Len(ports))
    /\ ports' \in Perms(ports)
    /\ pc' = "execute_tasks"
    /\ UNCHANGED <<callVars, requestVars, thread_count, open_ports, poolVars,
                   total_ports, completed_ports, sessionVars, cs_status,
                   handlerVars, stopHistVars, histVars>>

\* ---------------------------------------------------------- execute_tasks
\* An executor sized by the number of tasks alone (a fault variant of the
\* line below, used to test the concurrency bound)
optimal_thread_count_PerTask(count, ntasks) == Min(ntasks, MAX_THREAD_COUNT)

\* optimal_thread_count = min(thread_count, len(tasks), self.MAX_THREAD_COUNT)
optimal_thread_count(count, ntasks) ==
    Min(Min(count, ntasks), MAX_THREAD_COUNT)

\* execute_tasks up to the creation of the executor: stop_event.clear(),
\* optimal_thread_count, results = []
ExecuteTasksBegin ==
    /\ pc = "execute_tasks"
    /\ stop_event' = FALSE
    /\ max_workers' = optimal_thread_count(effective_thread_count, Len(ports))
    /\ results' = <<>>
    /\ pc' = "submit"
    /\ tm_stop_called' = FALSE
    /\ UNCHANGED <<callVars, requestVars, ports, thread_count, effective_thread_count,
                   open_ports, futures, collect_idx, task, is_open, service,
                   read_completed, calc_progress, total_ports,
                   completed_ports, sessionVars, cs_status, handlerVars,
                   begun_at_stop, done_at_stop, histVars>>

\* One iteration of the submission loop: break when stop_event is set, else
\* executor.submit(func, *args) for the next task.
Submit ==
    /\ pc = "submit"
    /\ futures < Len(ports)
    /\ IF stop_event
         THEN /\ pc' = "collect"
              /\ UNCHANGED <<futures, task>>
         ELSE /\ futures' = futures + 1
              /\ task' = [task EXCEPT ![futures + 1] = "queued"]
              /\ pc' = IF futures + 1 = Len(ports) THEN "collect" ELSE "submit"
    /\ UNCHANGED <<callVars, requestVars, ports, thread_count, effective_thread_count,
                   open_ports, stop_event, max_workers, collect_idx, results,
                   is_open, service, read_completed, calc_progress,
                   total_ports, completed_ports, sessionVars, cs_status,
                   handlerVars, stopHistVars, histVars>>

\* The tuple scan_port_worker returns for task i
WorkerResult(i) == <<ports[i], is_open[i], service[i], EmptyBannerInfo>>

\* One iteration of the collection loop, at future collect_idx: break when
\* stop_event is set; take the result of a finished future; or, the future
\* not being done, future.result(timeout=30) raises and the loop goes on.
\* Past the last future the loop ends.
Collect ==
    /\ pc = "collect"
    /\ IF collect_idx > futures \/ stop_event
         THEN /\ pc' = "shutdown"
              /\ UNCHANGED <<collect_idx, results, timed_out>>
         ELSE /\ \/ /\ task[collect_idx] = "done"
                    /\ results' = Append(results, WorkerResult(collect_idx))
                    /\ UNCHANGED timed_out
                 \/ /\ task[collect_idx] # "done"
                    /\ timed_out' = timed_out \cup {collect_idx}
                    /\ UNCHANGED results
              /\ collect_idx' = collect_idx + 1
              /\ UNCHANGED pc
    /\ UNCHANGED <<callVars, requestVars, ports, thread_count, effective_thread_count,
                   open_ports, stop_event, max_workers, futures, task,
                   is_open, service, read_completed, calc_progress,
                   total_ports, completed_ports, sessionVars, cs_status,
                   handlerVars, stopHistVars, invoked, cb_calls, hangs>>

\* Step 9.9 without its `if is_open` (a fault variant, used to test the
\* open-ports-only property)
CollectOpenPorts_NoFilter(res) ==
    [p \in {res[i][1] : i \in DOMAIN res} |->
       LET i == CHOOSE j \in DOMAIN res : res[j][1] = p
       IN  [service |-> res[i][3],
            banner |-> res[i][4].banner,
            version |-> res[i][4].version,
            server |-> res[i][4].server,
            ssl_cert |-> res[i][4].ssl_cert]]

\* Step 9.9 of scan_ports: the open ports among the results, keyed by port
CollectOpenPorts(res) ==
    LET open == {i \in DOMAIN res : res[i][2]}
    IN  [p \in {res[i][1] : i \in open} |->
           LET i == CHOOSE j \in open :
                      /\ res[j][1] = p
                      /\ \A k \in open : res[k][1] = p => k <= j
           IN  [service |-> res[i][3],
                banner |-> res[i][4].banner,
                version |-> res[i][4].version,
                server |-> res[i][4].server,
                ssl_cert |-> res[i][4].ssl_cert]]

\* Whether the pool has drained: every submitted task has finished
PoolDrained == \A i \in 1..futures : task[i] = "done"

\* The end of the with block, executor.shutdown(wait=True): the pool's
\* threads are joined, which takes every submitted task to have finished.
\* execute_tasks then returns results and scan_ports builds its mapping.
Shutdown ==
    /\ pc = "shutdown"
    /\ PoolDrained
    /\ open_ports' = CollectOpenPorts(results)
    /\ pc' = IF entry = "web" THEN "store_results" ELSE "done"
    /\ UNCHANGED <<callVars, requestVars, ports, thread_count, effective_thread_count,
                   poolVars, total_ports, completed_ports, sessionVars,
                   cs_status, handlerVars, stopHistVars, histVars>>

\* ThreadingModule.stop(), called by a user of the object while a call of
\* execute_tasks is under way
TmStop ==
    /\ pc \in {"execute_tasks", "submit", "collect", "shutdown"}
    /\ ~stop_event
    /\ stop_event' = TRUE
    /\ IF pc # "execute_tasks"
         THEN /\ tm_stop_called' = TRUE
              /\ begun_at_stop' =
                    {i \in 1..futures : task[i] \notin {"new", "queued"}}
              /\ done_at_stop' = {i \in 1..futures : task[i] = "done"}
         ELSE UNCHANGED stopHistVars
    /\ UNCHANGED <<callVars, requestVars, pc, ports, thread_count,
                   effective_thread_count, open_ports, max_workers, futures,
                   collect_idx, results, task, is_open, service,
                   read_completed, calc_progress, total_ports,
                   completed_ports, sessionVars, cs_status, handlerVars,
                   histVars>>

\* ------------------------------------------- the pool's worker threads
\* The scan_port_worker calls under way
InFlight == {i \in 1..futures : task[i] \notin {"new", "queued", "done"}}

\* A pool thread takes the oldest queued work item; the executor runs at
\* most max_workers threads.
MayStart(i) ==
    /\ task[i] = "queued"
    /\ \A j \in 1..(i - 1) : task[j] # "queued"
    /\ Cardinality(InFlight) < max_workers

WorkerStart(i) ==
    /\ MayStart(i)
    /\ task' = [task EXCEPT ![i] = "test_port"]
    /\ invoked' = [invoked EXCEPT ![ports[i]] = @ + 1]
    /\ UNCHANGED <<callVars, requestVars, pc, ports, thread_count,
                   effective_thread_count, open_ports, stop_event,
                   max_workers, futures, collect_idx, results, is_open,
                   service, read_completed, calc_progress, total_ports,
                   completed_ports, sessionVars, cs_status, handlerVars,
                   stopHistVars, cb_calls, hangs, timed_out>>

\* scan_port_worker, step 8.1: is_open = self.test_port(host, port). The
\* connect attempt succeeds or fails; a call that blocks for good leaves the
\* invocation hung.
TestPort(i) ==
    /\ task[i] = "test_port"
    /\ \/ /\ is_open' = [is_open EXCEPT ![i] = TRUE]
          /\ task' = [task EXCEPT ![i] = "inspect"]
          /\ UNCHANGED hangs
       \/ /\ is_open' = [is_open EXCEPT ![i] = FALSE]
          /\ task' = [task EXCEPT ![i] = "callback"]
          /\ UNCHANGED hangs
       \/ /\ hangs < MaxHangs
          /\ hangs' = hangs + 1
          /\ task' = [task EXCEPT ![i] = "hung"]
          /\ UNCHANGED is_open
    /\ UNCHANGED <<callVars, requestVars, pc, ports, thread_count,
                   effective_thread_count, open_ports, stop_event,
                   max_workers, futures, collect_idx, results, service,
                   read_completed, calc_progress, total_ports,
                   completed_ports, sessionVars, cs_status, handlerVars,
                   stopHistVars, invoked, cb_calls, timed_out>>

\* scan_port_worker, steps 8.2 and 8.3, for an open port:
\* service = self.fetch_service_info(port), banner_info = self.grab_banner(..)
Inspect(i) ==
    /\ task[i] = "inspect"
    /\ service' = [service EXCEPT ![i] = fetch_service_info(ports[i])]
    /\ task' = [task EXCEPT ![i] = "callback"]
    /\ UNCHANGED <<callVars, requestVars, pc, ports, thread_count,
                   effective_thread_count, open_ports, stop_event,
                   max_workers, futures, collect_idx, results, is_open,
                   read_completed, calc_progress, total_ports,
                   completed_ports, sessionVars, cs_status, handlerVars,
                   stopHistVars, histVars>>

\* A worker that calls the callback for open ports only (a fault variant of
\* step 8.4, used to test the once-per-port property)
CallbackAdvance_OpenOnly(i) ==
    /\ entry = "cli"
    /\ task[i] = "callback"
    /\ completed_ports' = IF is_open[i] THEN completed_ports + 1 ELSE completed_ports
    /\ cb_calls' = [cb_calls EXCEPT ![ports[i]] = IF is_open[i] THEN @ + 1 ELSE @]
    /\ task' = [task EXCEPT ![i] = "done"]
    /\ UNCHANGED <<callVars, requestVars, pc, ports, thread_count,
                   effective_thread_count, open_ports, stop_event,
                   max_workers, futures, collect_idx, results, is_open,
                   service, read_completed, calc_progress, total_ports,
                   sessionVars, cs_status, handlerVars, stopHistVars,
                   invoked, hangs, timed_out>>

\* scan_port_worker, step 8.4, with the command line's callback:
\* progress.update(task, advance=1), which takes the progress bar's lock;
\* then the worker returns its tuple.
CallbackAdvance(i) ==
    /\ entry = "cli"
    /\ task[i] = "callback"
    /\ completed_ports' = completed_ports + 1
    /\ cb_calls' = [cb_calls EXCEPT ![ports[i]] = @ + 1]
    /\ task' = [task EXCEPT ![i] = "done"]
    /\ UNCHANGED <<callVars, requestVars, pc, ports, thread_count,
                   effective_thread_count, open_ports, stop_event,
                   max_workers, futures, collect_idx, results, is_open,
                   service, read_completed, calc_progress, total_ports,
                   sessionVars, cs_status, handlerVars, stopHistVars,
                   invoked, hangs, timed_out>>

\* scan_port_worker, step 8.4, with the web layer's callback update_progress;
\* completed_ports += 1 is a load of the closure cell ...
UpdateProgressLoad(i) ==
    /\ entry = "web"
    /\ task[i] = "callback"
    /\ read_completed' = [read_completed EXCEPT ![i] = completed_ports]
    /\ cb_calls' = [cb_calls EXCEPT ![ports[i]] = @ + 1]
    /\ task' = [task EXCEPT ![i] = "store_completed"]
    /\ UNCHANGED <<callVars, requestVars, pc, ports, thread_count,
                   effective_thread_count, open_ports, stop_event,
                   max_workers, futures, collect_idx, results, is_open,
                   service, calc_progress, total_ports, completed_ports,
                   sessionVars, cs_status, handlerVars, stopHistVars,
                   invoked, hangs, timed_out>>

\* ... and a store of the loaded value plus one;
UpdateProgressStore(i) ==
    /\ task[i] = "store_completed"
    /\ completed_ports' = read_completed[i] + 1
    /\ task' = [task EXCEPT ![i] = "calc_progress"]
    /\ UNCHANGED <<callVars, requestVars, pc, ports, thread_count,
                   effective_thread_count, open_ports, stop_event,
                   max_workers, futures, collect_idx, results, is_open,
                   service, read_completed, calc_progress, total_ports,
                   sessionVars, cs_status, handlerVars, stopHistVars,
                   histVars>>

\* progress = int((completed_ports / total_ports) * 100)
UpdateProgressCalc(i) ==
    /\ task[i] = "calc_progress"
    /\ calc_progress' =
          [calc_progress EXCEPT ![i] = ProgressPercent(completed_ports, total_ports)]
    /\ task' = [task EXCEPT ![i] = "store_progress"]
    /\ UNCHANGED <<callVars, requestVars, pc, ports, thread_count,
                   effective_thread_count, open_ports, stop_event,
                   max_workers, futures, collect_idx, results, is_open,
                   service, read_completed, total_ports, completed_ports,
                   sessionVars, cs_status, handlerVars, stopHistVars,
                   histVars>>

\* active_scans[scan_id]['progress'] = progress, the log entry of an open
\* port, and the worker's return
UpdateProgressPublish(i) ==
    /\ task[i] = "store_progress"
    /\ as_progress' = calc_progress[i]
    /\ as_logs' =
          IF is_open[i]
            THEN add_log(as_logs, "success", fetch_service_info(ports[i]), ports[i])
            ELSE as_logs
    /\ task' = [task EXCEPT ![i] = "done"]
    /\ UNCHANGED <<callVars, requestVars, pc, ports, thread_count,
                   effective_thread_count, open_ports, stop_event,
                   max_workers, futures, collect_idx, results, is_open,
                   service, read_completed, calc_progress, total_ports,
                   completed_ports, registered, as_status, as_results,
                   as_end_time, scan_results, now, cs_status, handlerVars,
                   stopHistVars, histVars>>

\* ------------------------------------ scan_worker after scan_ports returned
\* step 11.7: active_scans[scan_id]['results'] = scan_results
StoreResults ==
    /\ pc = "store_results"
    /\ as_results' = open_ports
    /\ pc' = "log_completion"
    /\ UNCHANGED <<callVars, requestVars, ports, thread_count, effective_thread_count,
                   open_ports, poolVars, total_ports, completed_ports,
                   registered, as_status, as_progress, as_logs, as_end_time,
                   scan_results, now, cs_status, handlerVars, stopHistVars,
                   histVars>>

\* steps 11.8 and 11.9: the completion log entry, then
\* complete_scan(scan_id, 'completed')
LogCompletion ==
    /\ pc = "log_completion"
    /\ as_logs' =
          IF open_ports # EmptyMap
            THEN add_log(as_logs, "info", "Scan completed", 0)
            ELSE add_log(as_logs, "warning", "Scan completed", 0)
    /\ cs_status' = "completed"
    /\ pc' = "complete_scan"
    /\ UNCHANGED <<callVars, requestVars, ports, thread_count, effective_thread_count,
                   open_ports, poolVars, total_ports, completed_ports,
                   registered, as_status, as_progress, as_results,
                   as_end_time, scan_results, now, handlerVars, stopHistVars,
                   histVars>>

\* complete_scan in the scanning thread, statement by statement:
\* active_scans[scan_id]['status'] = status
CompleteScanStatus ==
    /\ pc = "complete_scan"
    /\ registered
    /\ as_status' = cs_status
    /\ pc' = "complete_scan_end_time"
    /\ UNCHANGED <<callVars, requestVars, ports, thread_count, effective_thread_count,
                   open_ports, poolVars, total_ports, completed_ports,
                   registered, as_progress, as_logs, as_results, as_end_time,
                   scan_results, now, cs_status, handlerVars, stopHistVars,
                   histVars>>

\* active_scans[scan_id]['end_time'] = datetime.now()
CompleteScanEndTime ==
    /\ pc = "complete_scan_end_time"
    /\ as_end_time' = now
    /\ now' = now + 1
    /\ pc' = "complete_scan_store"
    /\ UNCHANGED <<callVars, requestVars, ports, thread_count, effective_thread_count,
                   open_ports, poolVars, total_ports, completed_ports,
                   registered, as_status, as_progress, as_logs, as_results,
                   scan_results, cs_status, handlerVars, stopHistVars,
                   histVars>>

\* scan_results[scan_id] = active_scans[scan_id]['results']
CompleteScanStore ==
    /\ pc = "complete_scan_store"
    /\ scan_results' = [present |-> TRUE, value |-> as_results]
    /\ pc' = "done"
    /\ UNCHANGED <<callVars, requestVars, ports, thread_count, effective_thread_count,
                   open_ports, poolVars, total_ports, completed_ports,
                   registered, as_status, as_progress, as_logs, as_results,
                   as_end_time, now, cs_status, handlerVars, stopHistVars,
                   histVars>>

\* ------------------------------------------------ the stop request handler
\* The open ports among the invocations that have completed
CompletedOpen == {ports[i] : i \in {j \in 1..futures : task[j] = "done" /\ is_open[j]}}

\* api_stop_scan: 404 for an unknown scan, else complete_scan(scan_id,
\* 'stopped'), whose first statement sets the status. The handler runs in
\* its own thread once the client holds the scan_id.
ApiStopScan ==
    /\ entry = "web"
    /\ pc # "api_start_scan"
    /\ hpc = "idle"
    /\ stop_requests < MaxStopRequests
    /\ stop_requests' = stop_requests + 1
    /\ IF registered
         THEN /\ as_status' = "stopped"
              /\ hpc' = "end_time"
              /\ api_stopped_at' =
                    IF as_status = "running" /\ ~api_stopped_at.seen
                      THEN [seen |-> TRUE, open |-> CompletedOpen]
                      ELSE api_stopped_at
              /\ stop_saw' = as_status
         ELSE UNCHANGED <<as_status, hpc, api_stopped_at, stop_saw>>
    /\ UNCHANGED <<callVars, requestVars, pc, ports, thread_count,
                   effective_thread_count, open_ports, poolVars, total_ports,
                   completed_ports, registered, as_progress, as_logs,
                   as_results, as_end_time, scan_results, now, cs_status,
                   stopHistVars, histVars>>

\* complete_scan in the handler: active_scans[scan_id]['end_time'] = now()
StopEndTime ==
    /\ hpc = "end_time"
    /\ as_end_time' = now
    /\ now' = now + 1
    /\ hpc' = "store"
    /\ UNCHANGED <<callVars, requestVars, pc, ports, thread_count,
                   effective_thread_count, open_ports, poolVars, total_ports,
                   completed_ports, registered, as_status, as_progress,
                   as_logs, as_results, scan_results, cs_status,
                   stop_requests, api_stopped_at, stop_saw, stopHistVars,
                   histVars>>

\* complete_scan in the handler: scan_results[scan_id] = ...['results'];
\* the handler then answers {'status': 'stopped'}
StopStore ==
    /\ hpc = "store"
    /\ scan_results' = [present |-> TRUE, value |-> as_results]
    /\ hpc' = "idle"
    /\ UNCHANGED <<callVars, requestVars, pc, ports, thread_count,
                   effective_thread_count, open_ports, poolVars, total_ports,
                   completed_ports, registered, as_status, as_progress,
                   as_logs, as_results, as_end_time, now, cs_status,
                   stop_requests, api_stopped_at, stop_saw, stopHistVars,
                   histVars>>

\* ----------------------------------------------------------- specification
\* A scan run from the command line (PortScanner.run_scan), with a user of
\* the ThreadingModule who may call stop().
Init == InitEntry("cli") /\ CallsIdle

Next ==
    \/ RunScan
    \/ ScanPortsCap
    \/ ScanPortsShuffle
    \/ ExecuteTasksBegin
    \/ Submit
    \/ Collect
    \/ Shutdown
    \/ TmStop
    \/ \E i \in Tasks :
          \/ WorkerStart(i)
          \/ TestPort(i)
          \/ Inspect(i)
          \/ CallbackAdvance(i)

Spec == Init /\ [][Next]_vars

\* A scan started through the web layer (api_start_scan, scan_worker), with
\* the client's stop requests.
InitWeb == InitEntry("web") /\ CallsIdle

NextWeb ==
    \/ ApiStartScan
    \/ ScanWorkerRegister
    \/ ScanWorkerResolve
    \/ ScanWorkerConfigure
    \/ ScanPortsCap
    \/ ScanPortsShuffle
    \/ ExecuteTasksBegin
    \/ Submit
    \/ Collect
    \/ Shutdown
    \/ StoreResults
    \/ LogCompletion
    \/ CompleteScanStatus
    \/ CompleteScanEndTime
    \/ CompleteScanStore
    \/ ApiStopScan
    \/ StopEndTime
    \/ StopStore
    \/ \E i \in Tasks :
          \/ WorkerStart(i)
          \/ TestPort(i)
          \/ Inspect(i)
          \/ UpdateProgressLoad(i)
          \/ UpdateProgressStore(i)
          \/ UpdateProgressCalc(i)
          \/ UpdateProgressPublish(i)

SpecWeb == InitWeb /\ [][NextWeb]_vars

\* ================================================================== claims
\* The tasks whose scan_port_worker call has begun executing
Begun == {i \in 1..futures : task[i] \notin {"new", "queued"}}

\* scan_ports has returned to its caller (the scan was run and not cut short)
ScanPortsReturned ==
    /\ target_ok
    /\ pc \in {"done", "store_results", "log_completion", "complete_scan",
               "complete_scan_end_time", "complete_scan_store"}

\* C1 (as claimed): a call of scan_ports that is not stopped invokes
\* scan_port_worker exactly once for each port and calls the progress
\* callback exactly |P| times, once per port and no other time.
C1_AsClaimed ==
    (ScanPortsReturned /\ ~tm_stop_called) =>
        /\ \A p \in Range(ports) : invoked[p] = 1 /\ cb_calls[p] = 1
        /\ cb_calls[0] = 0

\* C1 (amended): a call of scan_ports that is not stopped invokes
\* scan_port_worker exactly once for each port and calls the progress
\* callback exactly once with each port; when the requested thread count
\* exceeds twice the CPU count the callback is called one more time, with
\* port 0 and the advisory text, and otherwise no other time.
C1_OncePerPort ==
    (ScanPortsReturned /\ ~tm_stop_called) =>
        /\ \A p \in Range(ports) : invoked[p] = 1 /\ cb_calls[p] = 1
        /\ cb_calls[0] = IF req_threads > max_recommended_threads THEN 1 ELSE 0

C1_Witness ==
    /\ ScanPortsReturned
    /\ ~tm_stop_called
    /\ Len(ports) >= 2
    /\ req_threads > max_recommended_threads
    /\ \A p \in Range(ports) : invoked[p] = 1 /\ cb_calls[p] = 1
    /\ cb_calls[0] = 1

C3_OnlyOpenPorts ==
    \A p \in DOMAIN open_ports :
        /\ \E i \in Tasks : ports[i] = p /\ task[i] = "done" /\ is_open[i]
        /\ open_ports[p].service = fetch_service_info(p)
        /\ open_ports[p].service # ""

C3_Witness ==
    /\ pc = "done"
    /\ \E p \in DOMAIN open_ports : open_ports[p].service = "Unknown"
    /\ \E i \in Tasks : task[i] = "done" /\ ~is_open[i] /\ ports[i] \notin DOMAIN open_ports

\* The steps of the program's own threads in a command-line scan (every
\* action but the outside call of stop())
ProgramStep ==
    \/ RunScan
    \/ ScanPortsCap
    \/ ScanPortsShuffle
    \/ ExecuteTasksBegin
    \/ Submit
    \/ Collect
    \/ Shutdown
    \/ \E i \in Tasks :
          \/ WorkerStart(i)
          \/ TestPort(i)
          \/ Inspect(i)
          \/ CallbackAdvance(i)

\* C4 (as claimed): once stop() has been called during execute_tasks, no
\* invocation that had not begun executing by then is started, and
\* execute_tasks, out of its loops, returns without waiting for the
\* invocations that have not finished.
C4_AsClaimed ==
    tm_stop_called =>
        /\ Begun \subseteq begun_at_stop
        /\ pc = "shutdown" => ENABLED Shutdown

\* C4, first part alone: no invocation begins executing after stop()
C4_NoStartAfterStop == tm_stop_called => Begun \subseteq begun_at_stop

\* C4, second part alone: after stop() the return does not wait
C4_NoWaitAfterStop == (tm_stop_called /\ pc = "shutdown") => ENABLED Shutdown

\* C9 (as claimed): with a port invocation that never finishes (and no
\* stop() call), execute_tasks still returns: the scan is over or one of its
\* threads can take a step.
C9_AsClaimed ==
    ((\E i \in Tasks : task[i] = "hung") /\ ~stop_event) =>
        (pc = "done" \/ ENABLED ProgramStep)

Terminal == {"completed", "failed", "stopped"}

\* C5 (as claimed): after a stop request made on a running scan has been
\* answered, the scan's status is "stopped" and the results of the scan, in
\* active_scans and in scan_results, are exactly the open ports among the
\* invocations that had completed when stop was requested.
C5_AsClaimed ==
    (target_ok /\ api_stopped_at.seen /\ hpc = "idle") =>
        /\ as_status = "stopped"
        /\ DOMAIN as_results = api_stopped_at.open
        /\ scan_results.present
        /\ DOMAIN scan_results.value = api_stopped_at.open

\* C5, the status alone
C5_StatusStaysStopped ==
    (api_stopped_at.seen /\ hpc = "idle") => as_status = "stopped"

\* C5, the results alone
C5_PartialResults ==
    (api_stopped_at.seen /\ hpc = "idle") =>
        DOMAIN as_results = api_stopped_at.open

\* C6 (as claimed): a status of "completed", "failed" or "stopped" never
\* changes again.
C6_AsClaimed ==
    [][(as_status \in Terminal) => (as_status' = as_status)]_vars

\* C7 (as claimed): the steps of a stop request that found the scan's status
\* terminal leave its status, end time and results unchanged.
C7_AsClaimed ==
    [][((stop_requests' # stop_requests \/ hpc' # hpc) /\ stop_saw' \in Terminal)
         => (/\ as_status' = as_status
             /\ as_end_time' = as_end_time
             /\ as_results' = as_results)]_vars

\* C8: when the target host cannot be resolved no task is ever submitted and
\* no port probed, the scan's results stay empty, its status is never
\* "completed", and the scanning thread ends with status "failed" (where no
\* stop request has written "stopped" over it: that is C6 and C7).
C8_ResolutionFailure ==
    ~target_ok =>
        /\ futures = 0
        /\ as_status # "completed"
        /\ \A i \in Tasks : task[i] = "new"
        /\ \A p \in Range(ports) : invoked[p] = 0 /\ cb_calls[p] = 0
        /\ as_results = EmptyMap
        /\ scan_results.value = EmptyMap
        /\ pc \notin {"configure", "scan_ports", "shuffle", "execute_tasks",
                      "submit", "collect", "shutdown", "store_results",
                      "log_completion"}
        /\ (pc = "done" /\ stop_saw = "none") =>
              /\ as_status = "failed"
              /\ scan_results.present

C8_Witness ==
    /\ ~target_ok
    /\ pc = "done"
    /\ as_status = "failed"
    /\ scan_results = [present |-> TRUE, value |-> EmptyMap]
    /\ as_logs # <<>>

\* C10 (as claimed): when scan_ports has returned for a scan that was not
\* stopped, the callback's completed-count equals the number of ports
\* dispatched.
C10_AsClaimed ==
    (ScanPortsReturned /\ ~tm_stop_called) => completed_ports = futures

\* The advisory entries of the scan's log stream: the thread-count warning of
\* api_start_scan
AdvisoryEntries ==
    {k \in DOMAIN as_logs :
        as_logs[k] = <<"warning", "thread count exceeds maximum", 0>>}

\* C11 (as claimed): a web scan asked for more threads than twice the CPU
\* count runs with the capped count and has exactly one advisory entry in
\* its log stream; a scan asked for no more than the cap has none.
C11_AsClaimed ==
    ScanPortsReturned =>
        /\ thread_count = Min(req_threads, max_recommended_threads)
        /\ Cardinality(AdvisoryEntries) =
              IF req_threads > max_recommended_threads THEN 1 ELSE 0

\* C11, the capped value alone (this part holds)
C11_ProceedsCapped ==
    ScanPortsReturned =>
        thread_count = Min(req_threads, max_recommended_threads)

\* ------------------------------------------------------- the pool's size
\* The sizing statements of a scan_ports call on their own, for thread
\* counts, port lists and CPU counts beyond those of the scans above:
\* scan_ports steps 9.2 to 9.5 and execute_tasks' optimal_thread_count, the
\* max_workers of the executor.
SizePool ==
    /\ pc = "scan_ports"
    /\ thread_count' = CapThreadCount(thread_count)
    /\ effective_thread_count' = Min(thread_count', Len(ports))
    /\ max_workers' = optimal_thread_count(effective_thread_count', Len(ports))
    /\ pc' = "sized"
    /\ UNCHANGED <<callVars, requestVars, ports, open_ports, stop_event, futures,
                   collect_idx, results, task, is_open, service,
                   read_completed, calc_progress, total_ports,
                   completed_ports, sessionVars, cs_status, handlerVars,
                   stopHistVars, histVars>>

\* A scan_ports call about to size its pool: ports 1..n, a requested thread
\* count and the host's CPU count. No task exists yet (they are made in step
\* 9.7), so the per-task state is empty.
InitSizing ==
    /\ entry = "cli"
    /\ target_ok = TRUE
    /\ req_threads \in 1..MaxSizingThreads
    /\ cpu_count \in 1..MaxSizingCpu
    /\ \E n \in 1..MaxSizingPorts : ports = [i \in 1..n |-> i]
    /\ pc = "scan_ports"
    /\ thread_count = req_threads
    /\ effective_thread_count = 0
    /\ open_ports = EmptyMap
    /\ stop_event = FALSE
    /\ max_workers = 0
    /\ futures = 0
    /\ collect_idx = 1
    /\ results = <<>>
    /\ task = EmptyMap
    /\ is_open = EmptyMap
    /\ service = EmptyMap
    /\ read_completed = EmptyMap
    /\ calc_progress = EmptyMap
    /\ total_ports = Len(ports)
    /\ completed_ports = 0
    /\ registered = FALSE
    /\ as_status = "none"
    /\ as_progress = 0
    /\ as_logs = <<>>
    /\ as_results = EmptyMap
    /\ as_end_time = 0
    /\ scan_results = [present |-> FALSE, value |-> EmptyMap]
    /\ now = 1
    /\ cs_status = "none"
    /\ hpc = "idle"
    /\ stop_requests = 0
    /\ invoked = EmptyMap
    /\ cb_calls = [p \in {0} |-> 0]
    /\ tm_stop_called = FALSE
    /\ begun_at_stop = {}
    /\ done_at_stop = {}
    /\ hangs = 0
    /\ timed_out = {}
    /\ api_stopped_at = [seen |-> FALSE, open |-> {}]
    /\ stop_saw = "none"
    /\ CallsIdle

NextSizing == SizePool

SpecSizing == InitSizing /\ [][NextSizing]_vars

\* C12 (as claimed): the executor's worker count equals
\* min(requested thread count, number of ports, 2 * cpu_count), whatever
\* the three are.
C12_AsClaimed ==
    pc = "sized" =>
        max_workers =
            Min(Min(req_threads, Len(ports)), cpu_count * ThreadCapFactor)

\* C12 (amended): the executor's worker count equals
\* min(requested thread count, number of ports, 2 * cpu_count, 100): the
\* ThreadingModule's own ceiling of min(100, 5 * cpu_count) is below twice
\* the CPU count on hosts with more than 50 CPUs.
C12_WorkerCount ==
    pc = "sized" =>
        max_workers =
            Min(Min(Min(req_threads, Len(ports)), cpu_count * ThreadCapFactor),
                PoolCapCeiling)

C12_Witness ==
    /\ pc = "sized"
    /\ cpu_count * ThreadCapFactor > PoolCapCeiling
    /\ req_threads > PoolCapCeiling
    /\ Len(ports) > PoolCapCeiling
    /\ max_workers = PoolCapCeiling

\* ------------------------------------------------------ port spec parsing
Num(v) == [ok |-> TRUE, v |-> v]
NotNum == [ok |-> FALSE, v |-> 0]

\* The numbers a port spec is written with here: the low ports from 0 and
\* the ports around the highest port number
PortValues ==
    (0..MaxSmallPort) \cup ((MaxPortNumber - 1)..(MaxPortNumber + 1))

\* The sections a port spec is made of here: "v", "a-b" (short or empty
\* ranges), and the malformed "", "-v" and "1-2-3"
SectionPool ==
    {<<Num(v)>> : v \in PortValues}
      \cup {<<Num(r[1]), Num(r[2])>> :
               r \in {q \in PortValues \X PortValues :
                         q[2] - q[1] <= MaxSmallPort}}
      \cup {<<NotNum>>, <<NotNum, Num(1)>>, <<Num(1), Num(2), Num(3)>>}

PortSpecs ==
    UNION {[1..n -> SectionPool] : n \in 0..MaxSections}

\* A section for which `start, end = map(int, section.split('-'))` or
\* int(section) raises ValueError
SectionRaises(sec) ==
    \/ Len(sec) > 2
    \/ \E k \in DOMAIN sec : ~sec[k].ok

\* list(range(start, end + 1)), or [int(section)]
SectionPorts(sec) ==
    IF Len(sec) = 2
      THEN [k \in 1..(sec[2].v - sec[1].v + 1) |-> sec[1].v + k - 1]
      ELSE <<sec[1].v>>

\* The ports list after the loop over the sections (extend / append)
RECURSIVE Accumulate(_)
Accumulate(sections) ==
    IF sections = <<>> THEN <<>>
    ELSE SectionPorts(Head(sections)) \o Accumulate(Tail(sections))

\* sorted(S)
RECURSIVE SortedSeq(_)
SortedSeq(S) ==
    IF S = {} THEN <<>>
    ELSE LET m == CHOOSE x \in S : \A y \in S : x <= y
         IN  <<m>> \o SortedSeq(S \ {m})

\* A parse_port_range that returns the list as accumulated (a fault variant,
\* used to test the parsing property)
SortedUnique_AsAccumulated(seq) == seq

\* sorted(list(set(ports)))
SortedUnique(seq) == SortedSeq(Range(seq))

\* validate_port_range's and validate_args' test of one section
SectionInvalid(sec) ==
    \/ SectionRaises(sec)
    \/ IF Len(sec) = 2
         THEN \/ sec[1].v < 1
              \/ sec[2].v > MaxPortNumber
              \/ sec[1].v > sec[2].v
         ELSE sec[1].v < 1 \/ sec[1].v > MaxPortNumber

\* parse_port_range (flask_web_interface.py and main.py): [ok, ports, alias];
\* ok is false where it raises ValueError, alias says the list returned is
\* the DEFAULT_PORTS object
parse_port_range(spec) ==
    IF spec = <<>>
      THEN [ok |-> TRUE, ports |-> DEFAULT_PORTS, alias |-> TRUE]
    ELSE IF \E k \in DOMAIN spec : SectionRaises(spec[k])
      THEN [ok |-> FALSE, ports |-> <<>>, alias |-> FALSE]
    ELSE [ok |-> TRUE, ports |-> SortedUnique(Accumulate(spec)), alias |-> FALSE]

\* ScannerEngine.validate_port_range: raises on an empty spec and on the
\* first invalid section
validate_port_range(spec) ==
    IF spec = <<>> \/ \E k \in DOMAIN spec : SectionInvalid(spec[k])
      THEN [ok |-> FALSE, ports |-> <<>>, alias |-> FALSE]
      ELSE [ok |-> TRUE, ports |-> SortedSeq(Range(Accumulate(spec))),
            alias |-> FALSE]

\* validate_args' answer for args.ports
validate_args(spec) ==
    spec = <<>> \/ \A k \in DOMAIN spec : ~SectionInvalid(spec[k])

\* The scan's own state, the port list aside
scanVarsButPorts ==
    <<requestVars, pc, thread_count, effective_thread_count, open_ports,
      poolVars, total_ports, completed_ports, sessionVars, cs_status,
      handlerVars, stopHistVars, histVars>>

\* What a parser's call leaves in the state
Parsed(by, r, accepted) ==
    /\ parse_result' = [by |-> by, ok |-> r.ok, ports |-> r.ports]
    /\ parse_pc' = IF accepted THEN "parsed" ELSE "rejected"
    /\ ports' = IF accepted THEN r.ports ELSE <<>>
    /\ default_aliased' = (accepted /\ r.alias)
    /\ UNCHANGED <<port_range, DEFAULT_PORTS, parse_requests, scanVarsButPorts, extraVars, probeVars, pollVars>>

\* api_start_scan, step 14.3.5: parse_port_range; a ValueError and an empty
\* list are answered with 400, any other list is handed to scan_worker
ApiStartScanParse ==
    /\ parse_pc = "request"
    /\ LET r == parse_port_range(port_range)
       IN  Parsed("web", r, r.ok /\ r.ports # <<>>)

\* main: validate_args, then PortScanner.parse_port_range, whose list is
\* handed to run_scan
MainParse ==
    /\ parse_pc = "request"
    /\ parse_requests = 0
    /\ IF validate_args(port_range)
         THEN LET r == parse_port_range(port_range)
              IN  Parsed("cli", r, r.ok)
         ELSE Parsed("cli", [ok |-> FALSE, ports |-> <<>>, alias |-> FALSE],
                     FALSE)

\* A call of ScannerEngine.validate_port_range
ValidatePortRange ==
    /\ parse_pc = "request"
    /\ parse_requests = 0
    /\ LET r == validate_port_range(port_range)
       IN  Parsed("engine", r, r.ok)

Reverse(s) == [k \in DOMAIN s |-> s[Len(s) + 1 - k]]

\* The outcomes of random.shuffle(s) that are followed: every permutation of
\* a short list, the list itself and its reversal of a longer one
ShuffleOutcomes(s) ==
    IF Len(s) <= MaxShuffleLen THEN Perms(s) ELSE {s, Reverse(s)}

\* scan_ports, step 9.6, on the list the parser handed over:
\* random.shuffle(ports) shuffles the list object in place
ShuffleParsed ==
    /\ parse_pc = "parsed"
    /\ parse_result.by \in {"web", "cli"}
    /\ ports' \in ShuffleOutcomes(ports)
    /\ DEFAULT_PORTS' = IF default_aliased THEN ports' ELSE DEFAULT_PORTS
    /\ parse_pc' = "scanned"
    /\ UNCHANGED <<port_range, parse_result, default_aliased, parse_requests,
                   scanVarsButPorts, extraVars, probeVars, pollVars>>

\* The web client sends its start request again (the server process, and
\* with it DEFAULT_PORTS, lives on)
StartRequestAgain ==
    /\ parse_pc \in {"scanned", "rejected"}
    /\ parse_result.by = "web"
    /\ parse_requests + 1 < MaxRequests
    /\ parse_requests' = parse_requests + 1
    /\ parse_pc' = "request"
    /\ UNCHANGED <<port_range, parse_result, DEFAULT_PORTS, default_aliased,
                   ports, scanVarsButPorts, extraVars, probeVars, pollVars>>

\* No scan is under way: the scan's state before any request
NoScan ==
    /\ entry = "web"
    /\ target_ok = TRUE
    /\ req_threads = 1
    /\ cpu_count = 1
    /\ ports = <<>>
    /\ pc = "idle"
    /\ thread_count = req_threads
    /\ effective_thread_count = 0
    /\ open_ports = EmptyMap
    /\ stop_event = FALSE
    /\ max_workers = 0
    /\ futures = 0
    /\ collect_idx = 1
    /\ results = <<>>
    /\ task = EmptyMap
    /\ is_open = EmptyMap
    /\ service = EmptyMap
    /\ read_completed = EmptyMap
    /\ calc_progress = EmptyMap
    /\ total_ports = 0
    /\ completed_ports = 0
    /\ registered = FALSE
    /\ as_status = "none"
    /\ as_progress = 0
    /\ as_logs = <<>>
    /\ as_results = EmptyMap
    /\ as_end_time = 0
    /\ scan_results = [present |-> FALSE, value |-> EmptyMap]
    /\ now = 1
    /\ cs_status = "none"
    /\ hpc = "idle"
    /\ stop_requests = 0
    /\ invoked = EmptyMap
    /\ cb_calls = [p \in {0} |-> 0]
    /\ tm_stop_called = FALSE
    /\ begun_at_stop = {}
    /\ done_at_stop = {}
    /\ hangs = 0
    /\ timed_out = {}
    /\ api_stopped_at = [seen |-> FALSE, open |-> {}]
    /\ stop_saw = "none"

\* A port spec arrives at a freshly started program
InitParse ==
    /\ NoScan
    /\ port_range \in PortSpecs
    /\ parse_pc = "request"
    /\ parse_result = [by |-> "none", ok |-> FALSE, ports |-> <<>>]
    /\ DEFAULT_PORTS = DefaultPortList
    /\ default_aliased = FALSE
    /\ parse_requests = 0
    /\ ProbeIdle
    /\ PollIdle
    /\ ExtraIdle

NextParse ==
    \/ ApiStartScanParse
    \/ MainParse
    \/ ValidatePortRange
    \/ ShuffleParsed
    \/ StartRequestAgain

SpecParse == InitParse /\ [][NextParse]_vars

\* A well-formed port spec: one or more sections, each a port of 1..65535 or
\* a range a-b with 1 <= a <= b <= 65535
WellFormed(spec) ==
    /\ spec # <<>>
    /\ \A k \in DOMAIN spec :
          /\ Len(spec[k]) \in {1, 2}
          /\ \A f \in DOMAIN spec[k] :
                spec[k][f].ok /\ spec[k][f].v \in 1..MaxPortNumber
          /\ Len(spec[k]) = 2 => spec[k][1].v <= spec[k][2].v

\* The ports a well-formed spec names
NamedPorts(spec) ==
    UNION {IF Len(spec[k]) = 2 THEN spec[k][1].v..spec[k][2].v
           ELSE {spec[k][1].v} : k \in DOMAIN spec}

\* C13: every parser, given a well-formed port spec, returns (it does not
\* reject) the ascending list without duplicates of exactly the ports the
\* spec names; so for a comma-joined list of valid ports it returns the
\* sorted list of the distinct ports.
C13_ParsesNamedPorts ==
    (parse_pc \in {"parsed", "rejected"} /\ WellFormed(port_range)) =>
        /\ parse_pc = "parsed"
        /\ parse_result.ok
        /\ \A j, k \in DOMAIN parse_result.ports :
              j < k => parse_result.ports[j] < parse_result.ports[k]
        /\ Range(parse_result.ports) = NamedPorts(port_range)

C13_Witness ==
    /\ parse_pc = "parsed"
    /\ parse_result.by = "web"
    /\ port_range = <<<<Num(2)>>, <<Num(1), Num(2)>>>>
    /\ parse_result.ports = <<1, 2>>

\* A spec with a value outside 1..65535, a range with start > end, or a
\* section that is no port and no range
SpecInvalid(spec) == \E k \in DOMAIN spec : SectionInvalid(spec[k])

\* C14 (as claimed): a port spec with a value outside [1, 65535] or a range
\* with start > end is rejected by the parsing of a start request (web and
\* command line), so every port handed to the scan lies in [1, 65535].
C14_AsClaimed ==
    (parse_pc = "parsed" /\ parse_result.by \in {"web", "cli"}) =>
        /\ ~SpecInvalid(port_range)
        /\ \A k \in DOMAIN parse_result.ports :
              parse_result.ports[k] \in 1..MaxPortNumber

\* C14 for the command line alone, where validate_args runs first (holds)
C14_CommandLineValidates ==
    (parse_pc = "parsed" /\ parse_result.by = "cli") =>
        /\ ~SpecInvalid(port_range)
        /\ \A k \in DOMAIN parse_result.ports :
              parse_result.ports[k] \in 1..MaxPortNumber

\* C15 (as claimed): every port-spec parser returns, for the empty spec, the
\* default list as written, and does not raise.
C15_AsClaimed ==
    (port_range = <<>> /\ parse_pc \in {"parsed", "rejected"}) =>
        /\ parse_pc = "parsed"
        /\ parse_result.ok
        /\ parse_result.ports = DefaultPortList

\* C15 for the two parse_port_range functions alone (the parsers a start
\* request goes through)
C15_ParsePortRangeDefault ==
    (port_range = <<>> /\ parse_pc \in {"parsed", "rejected"}
        /\ parse_result.by \in {"web", "cli"}) =>
        /\ parse_result.ok
        /\ parse_result.ports = DefaultPortList

\* ------------------------------------- one port's probe and inspection
\* The ports probed here: table entries of every inspection branch (21 FTP,
\* 22 SSH, 25 SMTP, 80 HTTP, 443 HTTPS, 993 IMAPS), 8443 (HTTP by its
\* number), 9999 and 10000 (no table entry), and 65536, which is no port
\* but which the web layer's parsing lets through
ProbePorts == {21, 22, 25, 80, 443, 993, 8443, 9999, 10000, MaxPortNumber + 1}

\* How test_port's statements can end: socket.socket() raises ("no_socket");
\* connect_ex returns 0 ("connected") or an error code ("refused",
\* "timeout", "unreachable"); connect_ex raises socket.gaierror
\* ("dns_failure") or, for a number that is no port, OverflowError
\* ("bad_port")
ConnectOutcomes(port) ==
    IF port \in 1..MaxPortNumber
      THEN {"no_socket", "connected", "refused", "timeout", "unreachable",
            "dns_failure"}
      ELSE {"no_socket", "bad_port"}

\* A test_port without its try/except (a fault variant, used to test the
\* never-raises property)
test_port_NoExcept(o) ==
    [ret |-> o = "connected",
     raises |-> o \in {"no_socket", "dns_failure", "bad_port"},
     attempts |-> IF o = "no_socket" THEN 0 ELSE 1,
     unclosed |-> IF o \in {"dns_failure", "bad_port"} THEN 1 ELSE 0]

\* test_port: [ret, raises, attempts, unclosed]. s.close() follows connect_ex
\* in the try block, so it is skipped when connect_ex raises; every
\* exception is caught and answered with False.
test_port(o) ==
    [ret |-> o = "connected",
     raises |-> FALSE,
     attempts |-> IF o = "no_socket" THEN 0 ELSE 1,
     unclosed |-> IF o \in {"dns_failure", "bad_port"} THEN 1 ELSE 0]

\* A scan_port_worker that classifies and inspects whatever test_port
\* answered (a fault variant of steps 8.2 and 8.3, used to test the order of
\* the steps)
ProbeTestPort_InspectsClosed ==
    /\ probe_pc = "test_port"
    /\ \E o \in ConnectOutcomes(probe_port) :
          LET r == test_port(o)
          IN  /\ conn' = o
              /\ connects' = connects + r.attempts
              /\ pw_is_open' = r.ret
              /\ raised' = r.raises
              /\ unclosed' = unclosed + r.unclosed
              /\ probe_pc' = "fetch_service_info"
    /\ UNCHANGED <<probe_port, pw_service, pw_banner_info, cb_service,
                   lookups, branch, port_record, parseVars, pollVars,
                   ports, scanVarsButPorts, extraVars>>

\* scan_port_worker, step 8.1
ProbeTestPort ==
    /\ probe_pc = "test_port"
    /\ \E o \in ConnectOutcomes(probe_port) :
          LET r == test_port(o)
          IN  /\ conn' = o
              /\ connects' = connects + r.attempts
              /\ pw_is_open' = r.ret
              /\ raised' = r.raises
              /\ unclosed' = unclosed + r.unclosed
              /\ probe_pc' = IF r.raises THEN "returned"
                             ELSE IF r.ret THEN "fetch_service_info"
                             ELSE "callback"
    /\ UNCHANGED <<probe_port, pw_service, pw_banner_info, cb_service,
                   lookups, branch, port_record, parseVars, pollVars,
                   ports, scanVarsButPorts, extraVars>>

\* The calls of socket.getservbyport one call of fetch_service_info makes
SystemLookups(port) == IF port \in DOMAIN SERVICE_MAP THEN 0 ELSE 1

\* scan_port_worker, step 8.2, for an open port
ProbeFetchServiceInfo ==
    /\ probe_pc = "fetch_service_info"
    /\ pw_service' = fetch_service_info(probe_port)
    /\ lookups' = lookups + SystemLookups(probe_port)
    /\ pw_banner_info' = NoBannerInfo
    /\ probe_pc' = "grab_banner_ssl"
    /\ UNCHANGED <<probe_port, conn, connects, pw_is_open, cb_service,
                   branch, unclosed, raised, port_record, parseVars,
                   pollVars, ports, scanVarsButPorts, extraVars>>

\* get_ssl_info's ssl_info as it is returned when the handshake succeeded:
\* with verify_mode = CERT_NONE getpeercert() gives an empty dict, so the
\* initial record is returned
SslInfoDefault ==
    [valid |-> FALSE, issued_to |-> "Unknown", issued_by |-> "Unknown",
     valid_from |-> "", valid_until |-> ""]

\* ... and when a socket or SSL error was caught: ssl_info["error"] = str(e)
SslInfoError ==
    [valid |-> FALSE, issued_to |-> "Unknown", issued_by |-> "Unknown",
     valid_from |-> "", valid_until |-> "", error |-> "error"]

\* get_ssl_info: "ok": the handshake succeeded; "error": socket.error,
\* ssl.SSLError or ssl.CertificateError, which it catches. For a host
\* test_port has just connected to, create_connection and wrap_socket raise
\* nothing else. Its sockets are opened in with statements.
get_ssl_info(o) == IF o = "ok" THEN SslInfoDefault ELSE SslInfoError

\* grab_banner's first condition
TlsApplies(svc, port) ==
    svc \in {"HTTPS", "IMAPS", "POP3S", "SMTPS"} \/ port \in {443, 465, 636, 993, 995}

\* grab_banner's first if: the TLS branch
ProbeSslBranch ==
    /\ probe_pc = "grab_banner_ssl"
    /\ IF TlsApplies(pw_service, probe_port)
         THEN \E o \in {"ok", "error"} :
                /\ branch' = [branch EXCEPT !["ssl"] =
                                 IF o = "ok" THEN "ok" ELSE "failed"]
                /\ pw_banner_info' =
                      [pw_banner_info EXCEPT !.ssl_cert = get_ssl_info(o)]
         ELSE UNCHANGED <<branch, pw_banner_info>>
    /\ probe_pc' = "grab_banner_banner"
    /\ UNCHANGED <<probe_port, conn, connects, pw_is_open, pw_service,
                   cb_service, lookups, unclosed, raised, port_record,
                   parseVars, pollVars, ports, scanVarsButPorts, extraVars>>

\* A grab_http_banner that keeps what it read before a failure (a fault
\* variant, used to test the inspection property)
grab_http_banner_KeepsPartial(o) ==
    [banner |-> IF o \in {"response", "io_failed"} THEN "headers" ELSE "",
     server |-> IF o = "response" THEN "server" ELSE "",
     version |-> IF o = "response" THEN "1.2.3" ELSE "",
     unclosed |-> IF o \in {"connect_failed", "io_failed"} THEN 1 ELSE 0]

\* grab_http_banner: http_info and the sockets left open. "response": a
\* response with a Server header was read; "no_response": nothing was read;
\* "connect_failed": s.connect raised; "wrap_failed": wrap_socket raised
\* (the socket is closed there); "io_failed": send or recv raised something
\* other than a timeout. The outer except closes nothing.
grab_http_banner(o) ==
    [banner |-> IF o = "response" THEN "headers" ELSE "",
     server |-> IF o = "response" THEN "server" ELSE "",
     version |-> IF o = "response" THEN "1.2.3" ELSE "",
     unclosed |-> IF o \in {"connect_failed", "io_failed"} THEN 1 ELSE 0]

\* grab_protocol_banner: the banner and the sockets left open. "banner":
\* data was received; "silent": none was (timeouts); "connect_failed":
\* s.connect raised, before the try whose finally closes the socket;
\* "io_failed": recv raised something other than a timeout, inside it.
grab_protocol_banner(o) ==
    [banner |-> IF o = "banner" THEN "banner" ELSE "",
     unclosed |-> IF o = "connect_failed" THEN 1 ELSE 0]

\* The condition of grab_banner's second if
HttpApplies(svc, port) ==
    svc \in {"HTTP", "HTTPS"} \/ port \in {80, 443, 8080, 8443}

\* A chain that tries SSH before FTP (a fault variant, used to test the
\* dispatch property)
ChainArm_SshFirst(svc, port) ==
    IF HttpApplies(svc, port) THEN "none"
    ELSE IF svc = "SSH" \/ port = 22 THEN "SSH"
    ELSE IF svc = "FTP" \/ port = 21 THEN "FTP"
    ELSE IF svc = "SMTP" \/ port = 25 THEN "SMTP"
    ELSE "generic"

\* The arm of the elif chain that runs: none when the HTTP branch applies,
\* else the first of FTP, SSH, SMTP whose condition holds, else the generic
\* one, whose condition `not banner_info["banner"]` holds since nothing has
\* set the banner by then
ChainArm(svc, port) ==
    IF HttpApplies(svc, port) THEN "none"
    ELSE IF svc = "FTP" \/ port = 21 THEN "FTP"
    ELSE IF svc = "SSH" \/ port = 22 THEN "SSH"
    ELSE IF svc = "SMTP" \/ port = 25 THEN "SMTP"
    ELSE "generic"

\* grab_banner's if/elif chain: the HTTP branch for HTTP services and ports,
\* else grab_protocol_banner (FTP, SSH, SMTP with their version or server
\* patterns, any other service with the banner alone)
ProbeBannerBranch ==
    /\ probe_pc = "grab_banner_banner"
    /\ IF HttpApplies(pw_service, probe_port)
         THEN \E o \in {"response", "no_response", "connect_failed", "io_failed"}
                      \cup (IF pw_service = "HTTPS" \/ probe_port = 443
                              THEN {"wrap_failed"} ELSE {}) :
                LET r == grab_http_banner(o)
                IN  /\ pw_banner_info' =
                          [pw_banner_info EXCEPT !.banner = r.banner,
                                                 !.server = r.server,
                                                 !.version = r.version]
                    /\ unclosed' = unclosed + r.unclosed
                    /\ branch' = [branch EXCEPT !["http"] =
                                     CASE o = "response" -> "ok"
                                       [] o = "no_response" -> "empty"
                                       [] OTHER -> "failed"]
         ELSE \E o \in {"banner", "silent", "connect_failed", "io_failed"},
                 matched \in BOOLEAN :
                LET r == grab_protocol_banner(o)
                    arm == ChainArm(pw_service, probe_port)
                    ftp_ssh == arm \in {"FTP", "SSH"}
                    smtp == arm = "SMTP"
                IN  /\ pw_banner_info' =
                          [pw_banner_info EXCEPT
                              !.banner = r.banner,
                              !.version = IF r.banner # "" /\ ftp_ssh /\ matched
                                            THEN "1.2.3" ELSE "",
                              !.server = IF r.banner # "" /\ smtp /\ matched
                                           THEN "server" ELSE ""]
                    /\ unclosed' = unclosed + r.unclosed
                    /\ branch' = [branch EXCEPT !["banner"] =
                                     CASE o = "banner" -> "ok"
                                       [] o = "silent" -> "empty"
                                       [] OTHER -> "failed",
                                                 !["chain"] = arm]
    /\ probe_pc' = "callback"
    /\ UNCHANGED <<probe_port, conn, connects, pw_is_open, pw_service,
                   cb_service, lookups, raised, port_record, parseVars,
                   pollVars, ports, scanVarsButPorts, extraVars>>

\* scan_port_worker, step 8.4, with the web layer's update_progress: for an
\* open port it asks fetch_service_info again for its log entry
ProbeCallback ==
    /\ probe_pc = "callback"
    /\ IF pw_is_open
         THEN /\ cb_service' = fetch_service_info(probe_port)
              /\ lookups' = lookups + SystemLookups(probe_port)
         ELSE UNCHANGED <<cb_service, lookups>>
    /\ probe_pc' = "return"
    /\ UNCHANGED <<probe_port, conn, connects, pw_is_open, pw_service,
                   pw_banner_info, branch, unclosed, raised, port_record,
                   parseVars, pollVars, ports, scanVarsButPorts, extraVars>>

\* scan_port_worker, step 8.6, and scan_ports' step 9.9 on its tuple
ProbeReturn ==
    /\ probe_pc = "return"
    /\ port_record' =
          CollectOpenPorts(<<<<probe_port, pw_is_open, pw_service,
                               pw_banner_info>>>>)
    /\ probe_pc' = "returned"
    /\ UNCHANGED <<probe_port, conn, connects, pw_is_open, pw_service,
                   pw_banner_info, cb_service, lookups, branch, unclosed,
                   raised, parseVars, pollVars, ports, scanVarsButPorts, extraVars>>

\* The interpreter finalises the socket objects nothing refers to any more,
\* which closes them: when it does is the interpreter's choice
FinaliseSockets ==
    /\ unclosed > 0
    /\ unclosed' = 0
    /\ UNCHANGED <<probe_port, probe_pc, conn, connects, pw_is_open,
                   pw_service, pw_banner_info, cb_service, lookups, branch,
                   raised, port_record, parseVars, pollVars, ports,
                   scanVarsButPorts, extraVars>>

\* A worker thread is about to run scan_port_worker for a port
InitProbe ==
    /\ NoScan
    /\ ParseIdle
    /\ PollIdle
    /\ ExtraIdle
    /\ probe_port \in ProbePorts
    /\ probe_pc = "test_port"
    /\ conn = "none"
    /\ connects = 0
    /\ pw_is_open = FALSE
    /\ pw_service = ""
    /\ pw_banner_info = EmptyMap
    /\ cb_service = ""
    /\ lookups = 0
    /\ branch = NoBranch
    /\ unclosed = 0
    /\ raised = FALSE
    /\ port_record = EmptyMap

NextProbe ==
    \/ ProbeTestPort
    \/ ProbeFetchServiceInfo
    \/ ProbeSslBranch
    \/ ProbeBannerBranch
    \/ ProbeCallback
    \/ ProbeReturn
    \/ FinaliseSockets

SpecProbe == InitProbe /\ [][NextProbe]_vars

\* C16: test_port returns a boolean and never raises; it returns true
\* exactly when its one connect attempt succeeded, and false for every
\* error (refused, timeout, unreachable, DNS failure, no socket) after at
\* most one attempt.
C16_TestPortBoolean ==
    probe_pc # "test_port" =>
        /\ ~raised
        /\ pw_is_open \in BOOLEAN
        /\ pw_is_open <=> conn = "connected"
        /\ connects <= 1

C16_Witness ==
    /\ probe_pc = "callback"
    /\ conn = "dns_failure"
    /\ pw_is_open = FALSE
    /\ connects = 1
    /\ ~raised

\* fetch_service_info has returned to scan_port_worker for the open port
Classified ==
    /\ pw_is_open
    /\ probe_pc \in {"grab_banner_ssl", "grab_banner_banner", "callback",
                     "return", "returned"}

InspectedOpen == probe_pc = "returned" /\ pw_is_open

\* C18 as the specification states it: whatever fails inside the TLS, HTTP
\* and banner branches, the open port is recorded with the classifier's
\* service name and the failed branch's fields are left empty.
C18_AsClaimed ==
    InspectedOpen =>
        /\ ~raised
        /\ probe_port \in DOMAIN port_record
        /\ port_record[probe_port].service = fetch_service_info(probe_port)
        /\ branch["ssl"] = "failed" =>
              port_record[probe_port].ssl_cert = EmptyMap
        /\ (branch["http"] = "failed" \/ branch["banner"] = "failed") =>
              /\ port_record[probe_port].banner = ""
              /\ port_record[probe_port].version = ""
              /\ port_record[probe_port].server = ""

\* C18: whatever fails inside the TLS, HTTP and banner branches, the open
\* port is recorded with the classifier's service name; a failed HTTP or
\* banner branch leaves banner, version and server empty; a failed TLS
\* branch leaves the default certificate record with the error's text.
C18_InspectionTolerant ==
    InspectedOpen =>
        /\ ~raised
        /\ probe_port \in DOMAIN port_record
        /\ port_record[probe_port].service = fetch_service_info(probe_port)
        /\ branch["ssl"] = "failed" =>
              port_record[probe_port].ssl_cert = SslInfoError
        /\ (branch["http"] = "failed" \/ branch["banner"] = "failed") =>
              /\ port_record[probe_port].banner = ""
              /\ port_record[probe_port].version = ""
              /\ port_record[probe_port].server = ""

C18_Witness ==
    /\ InspectedOpen
    /\ probe_port = 443
    /\ branch["ssl"] = "failed"
    /\ branch["http"] = "failed"
    /\ port_record[443].service = "HTTPS"
    /\ port_record[443].ssl_cert = SslInfoError
    /\ port_record[443].banner = ""

\* C19 as the specification states it: every socket a probe or inspection
\* operation opened is closed when the operation returns, on success, on
\* failure and on timeout, so between operations the worker holds no open
\* socket.
C19_AsClaimed == unclosed = 0

\* ---- frames of the further specifications
\* What the steps of this part leave alone: the receive loop of grab_http_banner
recvFrame ==
    <<parseVars, probeVars, pollVars, ports, scanVarsButPorts,
      timeoutVars,
      foundVars,
      idVars,
      sharedVars,
      cancelVars>>

\* Nothing else is going on
RecvOnly ==
    /\ NoScan
    /\ ParseIdle
    /\ ProbeIdle
    /\ PollIdle
    /\ TimeoutIdle
    /\ FoundIdle
    /\ IdIdle
    /\ SharedIdle
    /\ CancelIdle

\* What the steps of this part leave alone: two scans and the one ScannerEngine's timeout
timeoutFrame ==
    <<parseVars, probeVars, pollVars, ports, scanVarsButPorts,
      recvVars,
      foundVars,
      idVars,
      sharedVars,
      cancelVars>>

\* What the steps of this part leave alone: the answers to requests that name a scan
foundFrame ==
    <<parseVars, probeVars, pollVars, ports, scanVarsButPorts,
      recvVars,
      timeoutVars,
      idVars,
      sharedVars,
      cancelVars>>

\* What the steps of this part leave alone: two start requests and the scan_ids they are given
idFrame ==
    <<parseVars, probeVars, pollVars, ports, scanVarsButPorts,
      recvVars,
      timeoutVars,
      foundVars,
      sharedVars,
      cancelVars>>

\* What the steps of this part leave alone: two scans started with an empty port spec, holding the one DEFAULT_PORTS list
sharedFrame ==
    <<parseVars, probeVars, pollVars, ports, scanVarsButPorts,
      recvVars,
      timeoutVars,
      foundVars,
      idVars,
      cancelVars>>

\* What the steps of this part leave alone: two calls of execute_tasks on the one ThreadingModule, and stop()
cancelFrame ==
    <<parseVars, probeVars, pollVars, ports, scanVarsButPorts,
      recvVars,
      timeoutVars,
      foundVars,
      idVars,
      sharedVars>>

\* ------------------------------------------------ the status query's cursor
\* The log entries the scan's threads append while a client polls
MaxLogEntries == 3

\* What neither the scan's logging nor the status query touches
pollFrame ==
    <<parseVars, probeVars, extraVars, requestVars, pc, ports, thread_count,
      effective_thread_count, open_ports, poolVars, total_ports,
      completed_ports, registered, as_status, as_progress, as_results,
      as_end_time, scan_results, now, cs_status, handlerVars, stopHistVars,
      histVars>>

\* A thread of the registered scan calls add_log; the entry's third
\* component numbers it, as its timestamp and message tell entries apart
ScanThreadAddLog ==
    /\ pc = "resolve"
    /\ registered
    /\ Len(as_logs) < MaxLogEntries
    /\ \E level \in {"info", "success"} :
          as_logs' = add_log(as_logs, level, "entry", Len(as_logs) + 1)
    /\ UNCHANGED <<pollVars, pollFrame>>

\* api_scan_status, step 14.4.5, for the cursor the client passes back:
\* logs[logs_index:] if logs_index < len(logs) else []
PollSlice ==
    /\ poll_pc = "idle"
    /\ registered
    /\ logs_index' = client_index
    /\ new_logs' = IF client_index < Len(as_logs)
                     THEN SubSeq(as_logs, client_index + 1, Len(as_logs))
                     ELSE <<>>
    /\ poll_pc' = "respond"
    /\ UNCHANGED <<client_index, client_logs, as_logs, pollFrame>>

\* api_scan_status, steps 14.4.6 to 14.4.8: the response carries new_logs
\* and len(logs) as it is now; the client keeps both
PollRespond ==
    /\ poll_pc = "respond"
    /\ client_logs' = client_logs \o new_logs
    /\ client_index' = Len(as_logs)
    /\ poll_pc' = "idle"
    /\ UNCHANGED <<logs_index, new_logs, as_logs, pollFrame>>

\* The "Scan not found" answers followed
MaxNotFound == 1

\* api_scan_status, step 14.4.1, for the scan_id api_start_scan has returned
\* while the scan_worker thread has not yet made its entry in active_scans:
\* 404 "Scan not found" (api_stop_scan's step 14.5.1 answers the same)
StatusNotFound ==
    /\ pc = "scan_worker"
    /\ ~registered
    /\ poll_pc = "idle"
    /\ not_found < MaxNotFound
    /\ not_found' = not_found + 1
    /\ UNCHANGED foundFrame

InitPoll == InitEntry("web") /\ CallsIdle

NextPoll ==
    \/ ApiStartScan
    \/ ScanWorkerRegister
    \/ ScanThreadAddLog
    \/ StatusNotFound
    \/ PollSlice
    \/ PollRespond

SpecPoll == InitPoll /\ [][NextPoll]_vars

\* C20 as the specification states it: a client that starts with cursor 0
\* and passes back the logs_index of the previous response has received,
\* after each response, every log entry up to its cursor exactly once and
\* in append order, however its polls interleave with the appending threads.
C20_AsClaimed ==
    (registered /\ poll_pc = "idle") =>
        /\ client_index <= Len(as_logs)
        /\ client_logs = SubSeq(as_logs, 1, client_index)

\* ------------------------------------------------ grab_banner's dispatch
\* The services and ports grab_banner's conditions name, with one service
\* and one port they do not name
DispatchServices ==
    {"HTTP", "HTTPS", "FTP", "SSH", "SMTP", "IMAPS", "POP3S", "SMTPS", "MySQL",
     "Unknown"}

DispatchPorts == {21, 22, 25, 80, 443, 465, 636, 993, 995, 8080, 8443, 3306}

\* grab_banner is called with a service and a port of an open port
InitDispatch ==
    /\ NoScan
    /\ ParseIdle
    /\ PollIdle
    /\ ExtraIdle
    /\ probe_port \in DispatchPorts
    /\ pw_service \in DispatchServices
    /\ probe_pc = "grab_banner_ssl"
    /\ conn = "connected"
    /\ connects = 1
    /\ pw_is_open = TRUE
    /\ pw_banner_info = NoBannerInfo
    /\ cb_service = ""
    /\ lookups = 0
    /\ branch = NoBranch
    /\ unclosed = 0
    /\ raised = FALSE
    /\ port_record = EmptyMap

NextDispatch ==
    \/ ProbeSslBranch
    \/ ProbeBannerBranch

SpecDispatch == InitDispatch /\ [][NextDispatch]_vars

\* C22: grab_banner runs the TLS branch iff the service is HTTPS, IMAPS,
\* POP3S or SMTPS or the port is 443, 465, 636, 993 or 995; then the HTTP
\* branch iff the service is HTTP or HTTPS or the port is 80, 443, 8080 or
\* 8443; and, only when the HTTP branch does not apply, exactly one of FTP,
\* SSH, SMTP and generic, the first in that order whose condition holds.
C22_Dispatch ==
    LET tls == pw_service \in {"HTTPS", "IMAPS", "POP3S", "SMTPS"}
                  \/ probe_port \in {443, 465, 636, 993, 995}
        http == pw_service \in {"HTTP", "HTTPS"}
                  \/ probe_port \in {80, 443, 8080, 8443}
        arm == CASE pw_service = "FTP" \/ probe_port = 21 -> "FTP"
                 [] pw_service # "FTP" /\ probe_port # 21
                      /\ (pw_service = "SSH" \/ probe_port = 22) -> "SSH"
                 [] pw_service \notin {"FTP", "SSH"} /\ probe_port \notin {21, 22}
                      /\ (pw_service = "SMTP" \/ probe_port = 25) -> "SMTP"
                 [] OTHER -> "generic"
    IN  /\ probe_pc = "grab_banner_banner" =>
              /\ branch["ssl"] # "skipped" <=> tls
              /\ branch["http"] = "skipped"
              /\ branch["banner"] = "skipped"
        /\ probe_pc = "callback" /\ pw_is_open =>
              /\ branch["ssl"] # "skipped" <=> tls
              /\ branch["http"] # "skipped" <=> http
              /\ branch["banner"] # "skipped" <=> ~http
              /\ branch["chain"] = IF http THEN "none" ELSE arm

C22_Witness ==
    /\ probe_pc = "callback"
    /\ pw_service = "SSH"
    /\ probe_port = 21
    /\ branch["ssl"] = "skipped"
    /\ branch["http"] = "skipped"
    /\ branch["chain"] = "FTP"

\* ------------------------------------------- grab_http_banner's receive loop
\* s.recv(4096): the most one call returns
RecvBufSize == 4096

\* if len(response) > 8192: break
ResponseCap == 8192

\* The chunk sizes recv returns here: the least, the most, and sizes between
ChunkSizes == {1, 2, 1024, RecvBufSize - 1, RecvBufSize}

\* One iteration that receives data: response += chunk, then the length check
RecvChunk ==
    /\ recv_pc = "recv"
    /\ \E n \in ChunkSizes :
          /\ response' = response + n
          /\ recv_pc' = IF response + n > ResponseCap THEN "closed" ELSE "recv"
    /\ UNCHANGED recvFrame

\* The iteration that ends the loop otherwise: recv returns b"" (the stream
\* closed) or raises socket.timeout
RecvEnd ==
    /\ recv_pc = "recv"
    /\ recv_pc' = "closed"
    /\ UNCHANGED <<response, recvFrame>>

\* grab_http_banner has sent its HEAD request: response = b""
InitRecv ==
    /\ RecvOnly
    /\ recv_pc = "recv"
    /\ response = 0

NextRecv ==
    \/ RecvChunk
    \/ RecvEnd

SpecRecv == InitRecv /\ [][NextRecv]_vars

\* C24 as the specification states it: the response bytes grab_http_banner
\* accumulates never exceed the cap of 8192 bytes, whatever the sizes of the
\* received chunks.
C24_AsClaimed == response <= ResponseCap

\* What the loop does ensure: no chunk is received once more than 8192 bytes
\* are held, so the response never exceeds the cap by more than one chunk
C24_OvershootOneChunk == response <= ResponseCap + RecvBufSize

\* ------------------------------------------ the order of one invocation
\* The classifier has been called for the port
ClassifierRan == pw_service # "" \/ cb_service # "" \/ lookups > 0

\* grab_banner has been entered for the port
InspectorRan == pw_banner_info # EmptyMap \/ branch # NoBranch

\* The progress callback has been called for the port
ProgressEmitted == probe_pc \in {"return", "returned"}

\* C23: within one port invocation the classifier and the inspector run only
\* after test_port reported the port open, the inspector after the
\* classifier, and never for a closed port; the progress callback is called
\* only after the probe and, for an open port, after the classification and
\* the inspection have finished.
C23_StepOrder ==
    /\ (ClassifierRan \/ InspectorRan) => (conn = "connected" /\ pw_is_open)
    /\ InspectorRan => pw_service # ""
    /\ ProgressEmitted =>
          /\ conn # "none"
          /\ pw_is_open =>
                /\ pw_service = fetch_service_info(probe_port)
                /\ pw_banner_info # EmptyMap
                /\ branch["http"] # "skipped" \/ branch["banner"] # "skipped"
          /\ ~pw_is_open => (pw_service = "" /\ pw_banner_info = EmptyMap)

C23_Witness ==
    /\ probe_pc = "returned"
    /\ probe_port = 22
    /\ pw_is_open
    /\ pw_service = "SSH"
    /\ cb_service = "SSH"
    /\ branch["chain"] = "SSH"
    /\ branch["banner"] = "ok"

\* ------------------------------------------------ independence of the order
\* The mapping the ports' own statuses and services determine
StatusMapping ==
    [p \in {ports[i] : i \in {j \in Tasks : is_open[j]}} |->
        [service |-> fetch_service_info(p),
         banner |-> EmptyBannerInfo.banner,
         version |-> EmptyBannerInfo.version,
         server |-> EmptyBannerInfo.server,
         ssl_cert |-> EmptyBannerInfo.ssl_cert]]

\* C25 as the specification states it: what scan_ports returns is determined
\* by each port's open/closed status and service alone, whatever the shuffle
\* and the interleaving of the pool's threads were.
C25_AsClaimed ==
    (ScanPortsReturned /\ ~tm_stop_called) => open_ports = StatusMapping

\* What does hold: a run in which no future timed out returns the mapping
\* the statuses determine, in every shuffle and interleaving
C25_WithoutTimeouts ==
    (ScanPortsReturned /\ ~tm_stop_called /\ timed_out = {}) =>
        open_ports = StatusMapping

\* ------------------------------------------------------ the progress value
\* No worker thread is inside update_progress
CallbacksQuiet ==
    \A i \in Tasks : task[i] \notin {"store_completed", "calc_progress", "store_progress"}

\* C26 as the specification states it: the progress stored for a scan is
\* int(completed / total_ports * 100) for the current completed-count, lies
\* in 0..100, and is 100 whenever the scan's status is "completed", in every
\* interleaving of the worker threads that run the progress callback.
C26_AsClaimed ==
    /\ as_progress \in 0..100
    /\ (registered /\ total_ports > 0 /\ CallbacksQuiet) =>
          as_progress = ProgressPercent(completed_ports, total_ports)
    /\ as_status = "completed" => as_progress = 100

\* ----------------------------------------------- two scans, one engine
\* The test_port calls followed per scan
MaxProbes == 2

\* The timeouts a start request may carry, in seconds
TimeoutValues == {1, 2, 3}

\* api_start_scan: timeout = float(data.get('timeout', 1.0)), handed to the
\* scan_worker thread it starts
StartScanWithTimeout(s) ==
    /\ sc_pc[s] = "idle"
    /\ \E t \in TimeoutValues : sc_timeout' = [sc_timeout EXCEPT ![s] = t]
    /\ sc_pc' = [sc_pc EXCEPT ![s] = "scan_worker"]
    /\ UNCHANGED <<engine_timeout, sc_probes, sc_used, timeoutFrame>>

\* scan_worker, step 11.3: scanner_engine.timeout = timeout
ConfigureTimeout(s) ==
    /\ sc_pc[s] = "scan_worker"
    /\ engine_timeout' = sc_timeout[s]
    /\ sc_pc' = [sc_pc EXCEPT ![s] = "scanning"]
    /\ UNCHANGED <<sc_timeout, sc_probes, sc_used, timeoutFrame>>

\* test_port in a worker thread of scan s: s.settimeout(self.timeout)
ProbeWithTimeout(s) ==
    /\ sc_pc[s] = "scanning"
    /\ sc_probes[s] < MaxProbes
    /\ sc_probes' = [sc_probes EXCEPT ![s] = @ + 1]
    /\ sc_used' = [sc_used EXCEPT ![s] = @ \cup {engine_timeout}]
    /\ UNCHANGED <<engine_timeout, sc_timeout, sc_pc, timeoutFrame>>

\* The scan's last probe has been made
ScanProbesDone(s) ==
    /\ sc_pc[s] = "scanning"
    /\ sc_probes[s] >= 1
    /\ sc_pc' = [sc_pc EXCEPT ![s] = "done"]
    /\ UNCHANGED <<engine_timeout, sc_timeout, sc_probes, sc_used, timeoutFrame>>

InitTimeouts == NoScan /\ CallsIdle

NextTimeouts ==
    \E s \in Scans :
        \/ StartScanWithTimeout(s)
        \/ ConfigureTimeout(s)
        \/ ProbeWithTimeout(s)
        \/ ScanProbesDone(s)

SpecTimeouts == InitTimeouts /\ [][NextTimeouts]_vars

\* C21 as the specification states it: every probe of a scan uses the
\* connect timeout of that scan's own start request, also when another scan
\* with a different timeout is started while the first is running.
C21_AsClaimed == \A s \in Scans : sc_used[s] \subseteq {sc_timeout[s]}

\* --------------------------------------------------- the handle and the scan
\* C28 as the specification states it: every status query or stop request
\* that names a scan_id api_start_scan has returned finds the scan, in every
\* interleaving with the scan_worker thread.
C28_AsClaimed == not_found = 0

\* What does hold: the entry is never removed, so once scan_worker has made
\* it no request is answered "Scan not found"
C28_FoundOnceRegistered == [][registered => (registered' /\ not_found' = not_found)]_vars

\* ------------------------------------------------------ scan_ids
\* The seconds the clock passes through
MaxSeconds == 2

\* The log entries followed per scan
MaxSessionLogs == 2

\* The targets of the start requests
Targets == {"a.example", "b.example"}

\* A second passes
ClockTick ==
    /\ clock < MaxSeconds
    /\ clock' = clock + 1
    /\ UNCHANGED <<id_pc, sc_id, sessions, idFrame>>

\* api_start_scan, step 14.3.6: scan_id = f"{int(time.time())}_{target}",
\* then the scan_worker thread is started and the scan_id returned
StartScanId(s) ==
    /\ id_pc[s] = "idle"
    /\ \E t \in Targets : sc_id' = [sc_id EXCEPT ![s] = <<clock, t>>]
    /\ id_pc' = [id_pc EXCEPT ![s] = "scan_worker"]
    /\ UNCHANGED <<clock, sessions, idFrame>>

\* scan_worker, step 11.1: active_scans[scan_id] = {...}, whatever the
\* dictionary held under that key
RegisterSession(s) ==
    /\ id_pc[s] = "scan_worker"
    /\ sessions' =
          [i \in DOMAIN sessions \cup {sc_id[s]} |->
              IF i = sc_id[s] THEN [made_by |-> s, logs |-> <<>>]
              ELSE sessions[i]]
    /\ id_pc' = [id_pc EXCEPT ![s] = "running"]
    /\ UNCHANGED <<clock, sc_id, idFrame>>

\* add_log(scan_id, ...) in a thread of scan s
SessionLog(s) ==
    /\ id_pc[s] = "running"
    /\ Len(sessions[sc_id[s]].logs) < MaxSessionLogs
    /\ sessions' = [sessions EXCEPT ![sc_id[s]].logs = Append(@, s)]
    /\ UNCHANGED <<clock, id_pc, sc_id, idFrame>>

\* scan_worker returns
SessionDone(s) ==
    /\ id_pc[s] = "running"
    /\ id_pc' = [id_pc EXCEPT ![s] = "done"]
    /\ UNCHANGED <<clock, sc_id, sessions, idFrame>>

InitIds == NoScan /\ CallsIdle

NextIds ==
    \/ ClockTick
    \/ \E s \in Scans :
          \/ StartScanId(s)
          \/ RegisterSession(s)
          \/ SessionLog(s)
          \/ SessionDone(s)

SpecIds == InitIds /\ [][NextIds]_vars

\* C29 as the specification states it: two start requests never receive the
\* same scan_id, so the record of one scan is never overwritten or written
\* to by another scan, also for two scans of the same target started within
\* the same second.
C29_AsClaimed ==
    /\ \A s, t \in Scans :
          (s # t /\ sc_id[s] # <<>> /\ sc_id[t] # <<>>) => sc_id[s] # sc_id[t]
    /\ \A i \in DOMAIN sessions :
          \A k \in DOMAIN sessions[i].logs :
              sessions[i].logs[k] = sessions[i].made_by

\* ------------------------------------------ one list, two scan_ports calls
\* scan_ports reaches step 9.6: random.shuffle(ports) begins its loop
\* for i in reversed(range(1, len(x)))
ShuffleBegin(s) ==
    /\ sh_pc[s] = "idle"
    /\ sh_pc' = [sh_pc EXCEPT ![s] = "shuffle"]
    /\ sh_i' = [sh_i EXCEPT ![s] = Len(shared_list)]
    /\ UNCHANGED <<shared_list, sh_swap, sh_tasks, sharedFrame>>

\* random.shuffle: j = randbelow(i + 1) and the right-hand side of
\* x[i], x[j] = x[j], x[i] is evaluated; after the last i the for loop of
\* step 9.7 begins
ShuffleLoad(s) ==
    /\ sh_pc[s] = "shuffle"
    /\ IF sh_i[s] >= 2
       THEN /\ \E j \in 1..sh_i[s] :
                  sh_swap' = [sh_swap EXCEPT ![s] =
                                 <<j, shared_list[j], shared_list[sh_i[s]]>>]
            /\ sh_pc' = [sh_pc EXCEPT ![s] = "swap"]
            /\ UNCHANGED sh_i
       ELSE /\ sh_pc' = [sh_pc EXCEPT ![s] = "tasks"]
            /\ sh_i' = [sh_i EXCEPT ![s] = 1]
            /\ UNCHANGED sh_swap
    /\ UNCHANGED <<shared_list, sh_tasks, sharedFrame>>

\* random.shuffle: the two stores of x[i], x[j] = x[j], x[i]
ShuffleStore(s) ==
    /\ sh_pc[s] = "swap"
    /\ shared_list' = [[shared_list EXCEPT ![sh_i[s]] = sh_swap[s][2]]
                          EXCEPT ![sh_swap[s][1]] = sh_swap[s][3]]
    /\ sh_i' = [sh_i EXCEPT ![s] = @ - 1]
    /\ sh_swap' = [sh_swap EXCEPT ![s] = <<>>]
    /\ sh_pc' = [sh_pc EXCEPT ![s] = "shuffle"]
    /\ UNCHANGED <<sh_tasks, sharedFrame>>

\* scan_ports, step 9.7: one round of for port in ports: tasks.append(...),
\* or the end of the loop
BuildTask(s) ==
    /\ sh_pc[s] = "tasks"
    /\ IF sh_i[s] <= Len(shared_list)
       THEN /\ sh_tasks' = [sh_tasks EXCEPT ![s] = Append(@, shared_list[sh_i[s]])]
            /\ sh_i' = [sh_i EXCEPT ![s] = @ + 1]
            /\ UNCHANGED sh_pc
       ELSE /\ sh_pc' = [sh_pc EXCEPT ![s] = "dispatched"]
            /\ UNCHANGED <<sh_tasks, sh_i>>
    /\ UNCHANGED <<shared_list, sh_swap, sharedFrame>>

InitShared == NoScan /\ CallsIdle

NextShared ==
    \E s \in Scans :
        \/ ShuffleBegin(s)
        \/ ShuffleLoad(s)
        \/ ShuffleStore(s)
        \/ BuildTask(s)

SpecShared == InitShared /\ [][NextShared]_vars

\* C27 as the specification states it: when two scans are started with an
\* empty port spec and so hold the same DEFAULT_PORTS list, each scan still
\* dispatches every default port exactly once, and the list still holds the
\* same set of ports.
C27_AsClaimed ==
    /\ Range(shared_list) = Range(SharedDefault)
    /\ \A s \in Scans :
          sh_pc[s] = "dispatched" => sh_tasks[s] \in Perms(SharedDefault)

\* ------------------------------- stop() and two calls of execute_tasks
\* The tasks of each call
MaxCallTasks == 2

Running(c) == ex_pc[c] \in {"submit", "collect"}

\* execute_tasks begins: self.stop_event.clear(), then the executor is made
ExecuteBegin(c) ==
    /\ ex_pc[c] = "idle"
    /\ tm_flag' = FALSE
    /\ ex_pc' = [ex_pc EXCEPT ![c] = "submit"]
    /\ ex_idx' = [ex_idx EXCEPT ![c] = 0]
    /\ UNCHANGED <<cancelled, after_stop, cancelFrame>>

\* One round of the submission loop: break if stop_event is set, else
\* submit the next task; after the last task the collection loop begins
ExecuteSubmit(c) ==
    /\ ex_pc[c] = "submit"
    /\ IF ex_idx[c] = MaxCallTasks \/ tm_flag
       THEN /\ ex_pc' = [ex_pc EXCEPT ![c] = "collect"]
            /\ ex_idx' = [ex_idx EXCEPT ![c] = 0]
            /\ UNCHANGED after_stop
       ELSE /\ ex_idx' = [ex_idx EXCEPT ![c] = @ + 1]
            /\ after_stop' = [after_stop EXCEPT ![c] =
                                 IF cancelled[c] THEN @ + 1 ELSE @]
            /\ UNCHANGED ex_pc
    /\ UNCHANGED <<tm_flag, cancelled, cancelFrame>>

\* One round of the collection loop: break if stop_event is set, else take
\* the next future's result; after the last future the call returns
ExecuteCollect(c) ==
    /\ ex_pc[c] = "collect"
    /\ IF ex_idx[c] = MaxCallTasks \/ tm_flag
       THEN /\ ex_pc' = [ex_pc EXCEPT ![c] = "returned"]
            /\ UNCHANGED <<ex_idx, after_stop>>
       ELSE /\ ex_idx' = [ex_idx EXCEPT ![c] = @ + 1]
            /\ after_stop' = [after_stop EXCEPT ![c] =
                                 IF cancelled[c] THEN @ + 1 ELSE @]
            /\ UNCHANGED ex_pc
    /\ UNCHANGED <<tm_flag, cancelled, cancelFrame>>

\* ThreadingModule.stop(): self.stop_event.set(), while a call is running
StopCalled ==
    /\ \E c \in Scans : Running(c)
    /\ ~tm_flag
    /\ tm_flag' = TRUE
    /\ cancelled' = [c \in Scans |-> cancelled[c] \/ Running(c)]
    /\ UNCHANGED <<ex_pc, ex_idx, after_stop, cancelFrame>>

InitCancel == NoScan /\ CallsIdle

NextCancel ==
    \/ StopCalled
    \/ \E c \in Scans :
          \/ ExecuteBegin(c)
          \/ ExecuteSubmit(c)
          \/ ExecuteCollect(c)

SpecCancel == InitCancel /\ [][NextCancel]_vars

\* C30 as the specification states it: once stop() has been called while a
\* call of execute_tasks is running, the flag stays set until that call
\* returns, so that call's loops go through no further round, also when
\* another call of execute_tasks begins on the same ThreadingModule.
C30_AsClaimed ==
    \A c \in Scans :
        /\ (cancelled[c] /\ Running(c)) => tm_flag
        /\ after_stop[c] = 0

====
